---- MODULE Spec2Model ----
(***************************************************************************)
(* Last Seen Guardian: the adaptive health-evaluation engine               *)
(* (evaluator.py) with its debounced persistence, the data validator it    *)
(* runs before every write (data_validator.py), the storage layer          *)
(* (storage.py) and the unload path (__init__.py).                         *)
(*                                                                         *)
(* Time is the integer clock `now` (seconds, the value time.time()         *)
(* returns).  A handler runs atomically up to its first real suspension    *)
(* (asyncio.sleep, the host store's write, awaiting a cancelled task);     *)
(* awaiting LSGStorage.async_get does not suspend, it holds no await.      *)
(* Floating-point values (interval_ewma, threshold) are exact decimal      *)
(* fractions m / 10^k, with m held in two limbs so that nine decimal       *)
(* places fit 32-bit integers.  A host-store write takes less than         *)
(* one clock step: the clock does not advance while a write is in flight,  *)
(* but other handlers do interleave with it.                               *)
(*                                                                         *)
(* Not modelled: technical_context, interval_variance and the raw state    *)
(* string kept in history entries; none is read by the engine.             *)
(***************************************************************************)
EXTENDS Integers, Sequences, FiniteSets, TLC

VARIABLES
    now,               \* time.time()
    learning,          \* LSGEvaluator._learning_state
    has_storage,       \* LSGEvaluator._storage is not None
    mode,              \* LSGStorage._data["config"]["modes"]["current"]
    aliased,           \* LSGStorage._data["learning_state"] is the evaluator's dict
    stored_ls,         \* LSGStorage._data["learning_state"] while it is another dict
    persisted,         \* "learning_state" of the document the host store wrote last
    entities_changed,  \* LSGEvaluator._entities_changed
    last_save_time,    \* LSGEvaluator._last_save_time
    pending_save,      \* LSGEvaluator._pending_save
    save_task,         \* LSGEvaluator._save_task (NoTask: none, or done)
    sleeping,          \* the _delayed_save tasks inside asyncio.sleep
    flushing,          \* host-store writes in flight, in write-lock order
    subscribed,        \* _unsubscribe / _unsubscribe_timer are set
    backstop_next,     \* next firing of async_track_time_interval
    unload_pc,         \* position of async_unload_entry / _async_cleanup
    observed,          \* history: observe operations completed per entity
    last_call,         \* history: the last _async_schedule_save call
    burst_len,         \* history: calls in the current run of calls < D apart
    flushes_since_call,\* history: timer flushes started since the last call
    first_change,      \* history: time _entities_changed last became non-empty
    backstop_seen,     \* history: what the last backstop tick found and did
    health_out,        \* result of the last query (get_entity_health, ...)
    feed_interval,     \* the reporting period of the constant-interval feed
    val_in,            \* the document handed to validate_learning_state
    val_out,           \* what validate_learning_state returned, or that it raised
    cache,             \* HealthCache._cache, least recently used entry first
    cache_hist,        \* history: the last cache call, and when keys were set and used
    rate,              \* RateLimiter._calls, _blocked_until, and id() of each connection
    rate_hist,         \* history: the last check_rate_limit call, per connection
    registry,          \* the host entity registry, LSGRegistry._entities, the last lookup
    store_limit,       \* DataValidator.MAX_LEARNING_STATE_SIZE of the build
    obs                \* the _async_update_entity_learning tasks not yet finished

vars == <<now, learning, has_storage, mode, aliased, stored_ls, persisted,
          entities_changed, last_save_time, pending_save, save_task, sleeping,
          flushing, subscribed, backstop_next, unload_pc, observed, last_call,
          burst_len, flushes_since_call, first_change, backstop_seen,
          health_out, feed_interval, val_in, val_out, cache, cache_hist,
          rate, rate_hist, registry, store_limit, obs>>

\* the validator's and the health cache's state, which the engine leaves alone
aux2 == <<rate, rate_hist, registry, store_limit, obs>>
aux == <<val_in, val_out, cache, cache_hist, aux2>>

(***************************************************************************)
(* Bounds of the model                                                     *)
(***************************************************************************)
Entities == {"sensor.a", "sensor.b"}
MaxEvents == 3
TimeStep == 5
FineHorizon == 40
MaxTime == 340
StartTime == 1000

(***************************************************************************)
(* Program constants                                                       *)
(***************************************************************************)
SAVE_DEBOUNCE_SECONDS == 30
SAVE_MAX_WAIT_SECONDS == 300
PRIORITY_DELAY == 5
HISTORY_KEEP == 100
MAX_LEARNING_STATE_SIZE == 1000
MAX_HISTORY_PER_ENTITY == 50
MAX_HISTORY_AGE_DAYS == 30

HEALTH_OK == "ok"
HEALTH_LATE == "late"
HEALTH_STALE == "stale"
HEALTH_UNKNOWN == "unknown"
HealthStates == {HEALTH_OK, HEALTH_LATE, HEALTH_STALE, HEALTH_UNKNOWN}

LSG_MODES == {"normal", "vacation", "night"}

Min(a, b) == IF a < b THEN a ELSE b
Max(a, b) == IF a < b THEN b ELSE a

(***************************************************************************)
(* Exact decimal arithmetic standing for the program's floats.             *)
(* A Big is the integer hi * Base + lo with 0 <= lo < Base; a Dec is the   *)
(* number m / 10^k, kept with the least k.                                 *)
(***************************************************************************)
Base == 1000 * 1000

BigOf(i) == [hi |-> i \div Base, lo |-> i % Base]

BigMulSmall(x, c) ==
    LET t == x.lo * c
    IN  [hi |-> x.hi * c + (t \div Base), lo |-> t % Base]

BigAdd(x, y) ==
    LET t == x.lo + y.lo
    IN  [hi |-> x.hi + y.hi + (t \div Base), lo |-> t % Base]

BigLess(x, y) == x.hi < y.hi \/ (x.hi = y.hi /\ x.lo < y.lo)

BigDiv10(x) ==
    [hi |-> x.hi \div 10, lo |-> ((x.hi % 10) * Base + x.lo) \div 10]

RECURSIVE Scale10(_, _)
Scale10(m, j) == IF j = 0 THEN m ELSE Scale10(BigMulSmall(m, 10), j - 1)

None == [m |-> [hi |-> 0, lo |-> 0], k |-> -1]

RECURSIVE DecNorm(_)
DecNorm(x) ==
    IF x.k > 0 /\ x.m.lo % 10 = 0
    THEN DecNorm([m |-> BigDiv10(x.m), k |-> x.k - 1])
    ELSE x

DecInt(i) == [m |-> BigOf(i), k |-> 0]

DecAdd(x, y) ==
    LET k == Max(x.k, y.k)
    IN  DecNorm([m |-> BigAdd(Scale10(x.m, k - x.k), Scale10(y.m, k - y.k)),
                 k |-> k])

\* x * (c / 10)
DecMulTenths(x, c) == DecNorm([m |-> BigMulSmall(x.m, c), k |-> x.k + 1])

DecLess(x, y) ==
    LET k == Max(x.k, y.k)
    IN  BigLess(Scale10(x.m, k - x.k), Scale10(y.m, k - y.k))

DecLeqZero(x) == x.m.hi < 0 \/ (x.m.hi = 0 /\ x.m.lo = 0)

(***************************************************************************)
(* The learning record and the EWMA health engine                          *)
(***************************************************************************)
EmptyStore == [e \in {} |-> None]

StorePut(store, e, rec) ==
    [x \in (DOMAIN store) \cup {e} |-> IF x = e THEN rec ELSE store[x]]

LastN(s, n) == IF Len(s) > n THEN SubSeq(s, Len(s) - n + 1, Len(s)) ELSE s

\* last_event of a record whose value the validator reset to None
NoTime == -1

NewRecord(t) ==
    [last_event    |-> t,
     interval_ewma |-> None,
     event_count   |-> 0,
     threshold     |-> None,
     last_health   |-> HEALTH_UNKNOWN,
     history       |-> << >>]

\* threshold_multiplier of MODE_CONFIGS, in tenths
MODE_CONFIGS(m) ==
    CASE m = "normal"   -> 50
      [] m = "vacation" -> 80
      [] m = "night"    -> 40

\* variant: the multiplier is not looked up again after a mode change
GetCurrentThresholdMultiplier_Stale ==
    IF has_storage THEN MODE_CONFIGS("normal") ELSE 25

\* in tenths; 25 is the handler's answer when the storage lookup raises
GetCurrentThresholdMultiplier ==
    IF has_storage
    THEN IF mode \in LSG_MODES THEN MODE_CONFIGS(mode) ELSE MODE_CONFIGS("normal")
    ELSE 25

\* variant: the two weights exchanged
EwmaUpdate_Swapped(old_ewma, interval) ==
    IF old_ewma = None
    THEN DecInt(interval)
    ELSE DecAdd(DecMulTenths(old_ewma, 3), DecMulTenths(DecInt(interval), 7))

\* (1 - alpha) * old_ewma + alpha * interval, alpha = 0.3
EwmaUpdate(old_ewma, interval) ==
    IF old_ewma = None
    THEN DecInt(interval)
    ELSE DecAdd(DecMulTenths(old_ewma, 7), DecMulTenths(DecInt(interval), 3))

\* variant: a boundary value belongs to the better class
EvaluateHealth_Inclusive(store, entity_id, t) ==
    IF entity_id \notin DOMAIN store \/ store[entity_id].event_count < 2
    THEN HEALTH_UNKNOWN
    ELSE LET interval  == DecInt(t - store[entity_id].last_event)
             threshold == store[entity_id].threshold
         IN  IF threshold = None \/ DecLeqZero(threshold)
             THEN HEALTH_UNKNOWN
             ELSE IF ~DecLess(DecMulTenths(threshold, 11), interval)
                  THEN HEALTH_OK
                  ELSE IF ~DecLess(DecMulTenths(threshold, 20), interval)
                       THEN HEALTH_LATE
                       ELSE HEALTH_STALE

\* variant: one event is enough to classify
EvaluateHealth_OneEvent(store, entity_id, t) ==
    IF entity_id \notin DOMAIN store \/ store[entity_id].event_count < 1
    THEN HEALTH_UNKNOWN
    ELSE LET interval  == DecInt(t - store[entity_id].last_event)
             threshold == store[entity_id].threshold
         IN  IF threshold = None \/ DecLeqZero(threshold)
             THEN HEALTH_UNKNOWN
             ELSE IF DecLess(interval, DecMulTenths(threshold, 11))
                  THEN HEALTH_OK
                  ELSE IF DecLess(interval, DecMulTenths(threshold, 20))
                       THEN HEALTH_LATE
                       ELSE HEALTH_STALE

\* now - last_event raises TypeError: the record has two events or more and
\* no last_event
EvaluateRaises(store, entity_id) ==
    /\ entity_id \in DOMAIN store
    /\ store[entity_id].event_count >= 2
    /\ store[entity_id].last_event = NoTime

\* the class of a record that has a last_event
EvaluateHealth(store, entity_id, t) ==
    IF entity_id \notin DOMAIN store \/ store[entity_id].event_count < 2
    THEN HEALTH_UNKNOWN
    ELSE LET interval  == DecInt(t - store[entity_id].last_event)
             threshold == store[entity_id].threshold
         IN  IF threshold = None \/ DecLeqZero(threshold)
             THEN HEALTH_UNKNOWN
             ELSE IF DecLess(interval, DecMulTenths(threshold, 11))
                  THEN HEALTH_OK
                  ELSE IF DecLess(interval, DecMulTenths(threshold, 20))
                       THEN HEALTH_LATE
                       ELSE HEALTH_STALE

GetEntityHealth(entity_id) == EvaluateHealth(learning, entity_id, now)

GetAllHealthStates ==
    [e \in DOMAIN learning |-> EvaluateHealth(learning, e, now)]

\* variant: the first event of an entity only creates its record
LearnedRecord_BaselineOnly(store, entity_id, t, multiplier) ==
    LET rec      == IF entity_id \in DOMAIN store
                    THEN store[entity_id] ELSE NewRecord(t)
        interval == t - rec.last_event
        ewma     == EwmaUpdate(rec.interval_ewma, interval)
    IN  IF entity_id \notin DOMAIN store
        THEN rec
        ELSE [rec EXCEPT
                 !.interval_ewma = ewma,
                 !.threshold     = DecMulTenths(ewma, multiplier),
                 !.history       = LastN(Append(@, [timestamp |-> t,
                                                    interval  |-> interval]),
                                         HISTORY_KEEP),
                 !.last_event    = t,
                 !.event_count   = @ + 1]

\* the record of entity_id once lines 94-139 have run at time t
LearnedRecord(store, entity_id, t, multiplier) ==
    LET rec      == IF entity_id \in DOMAIN store
                    THEN store[entity_id] ELSE NewRecord(t)
        interval == t - rec.last_event
        ewma     == EwmaUpdate(rec.interval_ewma, interval)
    IN  IF rec.last_event = NoTime
        THEN [rec EXCEPT !.last_event = t, !.event_count = @ + 1]
        ELSE [rec EXCEPT
                 !.interval_ewma = ewma,
                 !.threshold     = DecMulTenths(ewma, multiplier),
                 !.history       = LastN(Append(@, [timestamp |-> t,
                                                    interval  |-> interval]),
                                         HISTORY_KEEP),
                 !.last_event    = t,
                 !.event_count   = @ + 1]

\* variant: the class is the one the record had before this event
UpdateEntityLearning_Before(store, entity_id, t, multiplier) ==
    LET rec == LearnedRecord(store, entity_id, t, multiplier)
    IN  StorePut(store, entity_id,
                 [rec EXCEPT !.last_health = EvaluateHealth(store, entity_id, t)])

\* the store once _async_update_entity_learning has set last_health
UpdateEntityLearning(store, entity_id, t, multiplier) ==
    LET rec    == LearnedRecord(store, entity_id, t, multiplier)
        store1 == StorePut(store, entity_id, rec)
    IN  StorePut(store, entity_id,
                 [rec EXCEPT !.last_health = EvaluateHealth(store1, entity_id, t)])

OldHealth(store, entity_id) ==
    IF entity_id \in DOMAIN store
    THEN store[entity_id].last_health ELSE HEALTH_UNKNOWN

\* health degraded: the save is scheduled with priority
IsPrioritySave(old_health, new_health) ==
    old_health # new_health /\ new_health \in {HEALTH_STALE, HEALTH_LATE}

AsyncRunEvaluation(store, t) ==
    [e \in DOMAIN store |->
        [store[e] EXCEPT !.last_health = EvaluateHealth(store, e, t)]]

(***************************************************************************)
(* The data validator, as run on the evaluator's own store.  The records  *)
(* the engine writes hold every required field with numeric values, so     *)
(* what is left is the pruning of a store over the limit and the cleaning  *)
(* of each history.                                                        *)
(***************************************************************************)
RECURSIVE SelectRecent(_, _)
\* event.get("timestamp", 0)
EventTimestamp(event) ==
    IF "timestamp" \in DOMAIN event THEN event.timestamp ELSE 0

SelectRecent(h, cutoff) ==
    IF h = << >> THEN << >>
    ELSE IF EventTimestamp(Head(h)) > cutoff
         THEN << Head(h) >> \o SelectRecent(Tail(h), cutoff)
         ELSE SelectRecent(Tail(h), cutoff)

CleanHistory(h, t) ==
    LastN(SelectRecent(h, t - MAX_HISTORY_AGE_DAYS * 86400),
          MAX_HISTORY_PER_ENTITY)

\* the entities left by the pruning of a store over the limit: the n of the
\* greatest last_event.  Among records of equal last_event the stable sort
\* keeps those the dict holds first; the store of the model keeps no order,
\* so any of them may stay.
KeptEntities(store, n) ==
    IF Cardinality(DOMAIN store) <= n
    THEN {DOMAIN store}
    ELSE {K \in SUBSET DOMAIN store :
             /\ Cardinality(K) = n
             /\ \A k \in K, d \in (DOMAIN store) \ K :
                    store[k].last_event >= store[d].last_event}

\* the cleaning of every record the pruning left
ValidateLearningState(store, t) ==
    [e \in DOMAIN store |->
        [store[e] EXCEPT !.history = CleanHistory(@, t)]]

(***************************************************************************)
(* The debounced persistence controller                                    *)
(***************************************************************************)
\* a _delayed_save task: when its sleep ends, whether it was scheduled with
\* priority, when it was created, and the expiry of the timer it replaced
NoTask == [due |-> 0, prio |-> FALSE, armed |-> 0, replaced |-> 0]

\* variant: the priority flag does not shorten the delay
SaveDelay_Flat(priority) == SAVE_DEBOUNCE_SECONDS

SaveDelay(priority) ==
    IF priority THEN PRIORITY_DELAY ELSE SAVE_DEBOUNCE_SECONDS

\* variant: the pending timer is left running
CancelSleeping_Keep(tasks, task) == tasks

\* task.cancel() on a task inside asyncio.sleep
CancelSleeping(tasks, task) == tasks \ {task}

\* task.cancel() on a task suspended in the host store's write: the
\* CancelledError leaves through _async_save_learning_state, whose
\* bookkeeping after the write is skipped
RECURSIVE CancelWriting(_, _)
CancelWriting(q, task) ==
    IF q = << >> THEN << >>
    ELSE << IF Head(q).owner = "timer" /\ Head(q).task = task
            THEN [Head(q) EXCEPT !.owner = "cancelled"]
            ELSE Head(q) >> \o CancelWriting(Tail(q), task)

TaskWriting(task) ==
    \E i \in 1..Len(flushing) :
        flushing[i].owner = "timer" /\ flushing[i].task = task

\* self._save_task and not self._save_task.done()
TaskLive(task) == task \in sleeping \/ TaskWriting(task)

\* storage._data["learning_state"]: the evaluator's dict itself once a flush
\* has stored it; after a cleanup, a dict of its own whose values are still
\* the evaluator's record objects
DataLS ==
    IF aliased THEN learning
    ELSE [e \in DOMAIN stored_ls |->
             IF e \in DOMAIN learning THEN learning[e] ELSE stored_ls[e]]

WriteJob(owner, task, snap) ==
    [owner |-> owner, task |-> task, snap |-> snap, started |-> now]

\* _async_schedule_save
ScheduleSaveStep(priority) ==
    LET task == [due      |-> now + SaveDelay(priority),
                 prio     |-> priority,
                 armed    |-> now,
                 replaced |-> IF save_task \in sleeping
                              THEN save_task.due ELSE 0]
    IN  /\ sleeping' = CancelSleeping(sleeping, save_task) \cup {task}
        /\ flushing' = CancelWriting(flushing, save_task)
        /\ save_task' = task
        /\ pending_save' = TRUE
        /\ last_call' = [at |-> now, prio |-> priority]
        /\ burst_len' = IF now - last_call.at < SAVE_DEBOUNCE_SECONDS
                        THEN burst_len + 1 ELSE 1
        /\ flushes_since_call' = 0

\* _async_save_learning_state up to the suspension in the store's write
FlushBeginStep(owner, task) ==
    \E kept \in KeptEntities(learning, store_limit) :
        LET cleaned == ValidateLearningState([e \in kept |-> learning[e]], now)
        IN  /\ learning' = cleaned
            /\ aliased' = TRUE
            /\ stored_ls' = EmptyStore
            /\ flushing' = Append(flushing, WriteJob(owner, task, cleaned))

RECURSIVE SumOver(_, _)
SumOver(f, S) ==
    IF S = {} THEN 0
    ELSE LET x == CHOOSE y \in S : TRUE IN f[x] + SumOver(f, S \ {x})

RECURSIVE SetMin(_)
SetMin(S) ==
    LET x == CHOOSE y \in S : TRUE
    IN  IF S = {x} THEN x ELSE Min(x, SetMin(S \ {x}))

\* LSGEvaluator.__init__ and async_setup: nothing changed, nothing scheduled,
\* the listeners registered
InitSaverAt(t) ==
    /\ mode = "normal"
    /\ entities_changed = {}
    /\ last_save_time = 0
    /\ pending_save = FALSE
    /\ save_task = NoTask
    /\ sleeping = {}
    /\ flushing = << >>
    /\ subscribed = TRUE
    /\ backstop_next = t + SAVE_MAX_WAIT_SECONDS
    /\ unload_pc = "running"
    /\ observed = [e \in Entities |-> 0]
    /\ last_call = [at |-> 0, prio |-> FALSE]
    /\ burst_len = 0
    /\ flushes_since_call = 0
    /\ first_change = 0
    /\ backstop_seen = "none"

InitSaver == InitSaverAt(StartTime)

\* LSGStorage.__init__ and LSGEvaluator.__init__: nothing stored, nothing
\* pending, the listeners of async_setup registered
InitController ==
    /\ InitSaver
    /\ aliased = FALSE
    /\ stored_ls = EmptyStore
    /\ persisted = EmptyStore

\* nothing validated yet
InitValidator ==
    /\ val_in = [kind |-> "none"]
    /\ val_out = [status |-> "none"]

(***************************************************************************)
(* HealthCache.  The cache is the OrderedDict as a sequence of entries,    *)
(* first entry = next(iter(_cache)).                                       *)
(***************************************************************************)
CacheMaxSize == 2
CacheTtl == 2
CacheHorizon == 4
CacheKeys == {"sensor.a", "sensor.b", "sensor.c"}
CacheHealths == {HEALTH_OK, HEALTH_STALE}
CacheMiss == "None"

CacheKeysOf(c) == {c[i].key : i \in 1..Len(c)}
CacheIndex(c, k) == CHOOSE i \in 1..Len(c) : c[i].key = k
CacheDel(c, k) == SelectSeq(c, LAMBDA x : x.key # k)

\* variant: the order is left as it is
CacheMoveToEnd_Keep(c, k) == c

\* OrderedDict.move_to_end
CacheMoveToEnd(c, k) == Append(CacheDel(c, k), c[CacheIndex(c, k)])

\* variant: an entry never expires
CacheExpired_Never(entry, t) == FALSE

\* time.time() - timestamp > self._ttl
CacheExpired(entry, t) == t - entry.timestamp > CacheTtl

\* variant: the limit is exceeded before anything is removed
CacheFull_Strict(c) == Len(c) > CacheMaxSize

\* len(self._cache) >= self._max_size
CacheFull(c) == Len(c) >= CacheMaxSize

\* get: the cache afterwards and the value returned
CacheGet(c, k, t) ==
    IF k \notin CacheKeysOf(c)
    THEN [cache |-> c, value |-> CacheMiss]
    ELSE IF CacheExpired(c[CacheIndex(c, k)], t)
         THEN [cache |-> CacheDel(c, k), value |-> CacheMiss]
         ELSE [cache |-> CacheMoveToEnd(c, k),
               value |-> c[CacheIndex(c, k)].health]

\* set
CacheSet(c, k, h, t) ==
    LET entry == [key |-> k, health |-> h, timestamp |-> t]
    IN  IF k \in CacheKeysOf(c)
        THEN CacheMoveToEnd([i \in 1..Len(c) |->
                                IF c[i].key = k THEN entry ELSE c[i]], k)
        ELSE Append(IF CacheFull(c) THEN Tail(c) ELSE c, entry)

\* invalidate
CacheInvalidate(c, k) == IF k \in CacheKeysOf(c) THEN CacheDel(c, k) ELSE c

\* cleanup_expired
CacheCleanup(c, t) == SelectSeq(c, LAMBDA x : ~CacheExpired(x, t))

\* history: keys in the order of their last use, the latest last
Touch(r, k) == Append(SelectSeq(r, LAMBDA x : x # k), k)

\* history: what a call did to the cache `before`, leaving `after`
CacheHistory(op, k, result, before, after, recency, set_at) ==
    [op       |-> op,
     key      |-> k,
     result   |-> result,
     time     |-> now,
     size     |-> Len(before),
     present  |-> k \in CacheKeysOf(before),
     removed  |-> CacheKeysOf(before) \ CacheKeysOf(after),
     at       |-> IF k \in CacheKeysOf(before)
                  THEN before[CacheIndex(before, k)].timestamp ELSE NoTime,
     lru      |-> {x \in CacheKeysOf(before) :
                      \A i, j \in 1..Len(cache_hist.recency) :
                          /\ cache_hist.recency[i] = x
                          /\ cache_hist.recency[j] \in CacheKeysOf(before)
                          => i <= j},
     recency  |-> recency,
     set_at   |-> [x \in CacheKeys |->
                      IF x \in CacheKeysOf(before) \ CacheKeysOf(after)
                      THEN NoTime ELSE set_at[x]]]

\* HealthCache.__init__
InitCache ==
    /\ cache = << >>
    /\ cache_hist = [op |-> "none", key |-> "none", result |-> CacheMiss,
                     time |-> StartTime, size |-> 0, present |-> FALSE, removed |-> {},
                     at |-> NoTime, lru |-> {}, recency |-> << >>,
                     set_at |-> [x \in CacheKeys |-> NoTime]]

(***************************************************************************)
(* RateLimiter.  A connection is known to the limiter by id(connection),   *)
(* the address of the object: unique among the connections that are open,  *)
(* free for the next connection once it is closed.                         *)
(***************************************************************************)
RateWindow == 3
RateMaxCalls == 2
RateBlock == 3
RateHorizon == 5
RateConns == {"c1", "c2"}
RateIds == {"0x1", "0x2"}

\* the deque without the calls it holds in front that are older than the
\* window
RECURSIVE PopOld(_, _)
PopOld(call_history, window_start) ==
    IF call_history # << >> /\ Head(call_history) < window_start
    THEN PopOld(Tail(call_history), window_start)
    ELSE call_history

\* current_calls >= RATE_LIMIT_MAX_CALLS
RateOver(current_calls) == current_calls >= RateMaxCalls

\* variant: a check during the block starts the block again
CheckRateLimit_Extend(call_history, blocked_until, t) ==
    IF blocked_until # NoTime /\ t < blocked_until
    THEN [allowed |-> FALSE, calls |-> call_history,
          blocked_until |-> t + RateBlock]
    ELSE LET kept == PopOld(call_history, t - RateWindow)
         IN  IF RateOver(Len(kept))
             THEN [allowed |-> FALSE, calls |-> kept,
                   blocked_until |-> t + RateBlock]
             ELSE [allowed |-> TRUE, calls |-> Append(kept, t),
                   blocked_until |-> NoTime]

\* check_rate_limit on the entries of one key: the answer and the entries
\* it leaves
CheckRateLimit(call_history, blocked_until, t) ==
    IF blocked_until # NoTime /\ t < blocked_until
    THEN [allowed |-> FALSE, calls |-> call_history,
          blocked_until |-> blocked_until]
    ELSE LET kept == PopOld(call_history, t - RateWindow)
         IN  IF RateOver(Len(kept))
             THEN [allowed |-> FALSE, calls |-> kept,
                   blocked_until |-> t + RateBlock]
             ELSE [allowed |-> TRUE, calls |-> Append(kept, t),
                   blocked_until |-> NoTime]

\* RateLimiter.__init__, no connection opened yet
InitRate ==
    /\ rate = [calls         |-> [i \in RateIds |-> << >>],
               blocked_until |-> [i \in RateIds |-> NoTime],
               conn_id       |-> [c \in RateConns |-> "unopened"]]
    /\ rate_hist = [conn     |-> "none",
                    at       |-> StartTime,
                    allowed  |-> TRUE,
                    own      |-> TRUE,
                    calls    |-> [c \in RateConns |-> << >>],
                    blocked_until |-> [c \in RateConns |-> NoTime],
                    granted  |-> [c \in RateConns |-> << >>]]

(***************************************************************************)
(* LSGRegistry.  The host registry is a sequence of entries in the order   *)
(* of entity_registry.entities.values().                                   *)
(***************************************************************************)
NoArea == "None"
RegAreas == {"kitchen", "living"}
RegIds == <<"sensor.k", "sensor.l", "sensor.m">>

\* the entries the host registry can hold for one entity, none included
RegEntryChoices(id) ==
    {<< >>} \cup
    {<<[entity_id |-> id, disabled |-> d, area_id |-> a, device_area |-> da]>> :
        d \in BOOLEAN, a \in RegAreas \cup {NoArea},
        da \in {NoArea, "kitchen"}}

\* entity_registry.entities.values()
RECURSIVE RegValues(_, _)
RegValues(host, i) ==
    IF i > Len(host) THEN << >> ELSE host[i] \o RegValues(host, i + 1)

\* async_refresh: one entry of _entities per enabled entity, its area taken
\* from its device when it has none
RECURSIVE Refresh(_)
Refresh(host) ==
    IF host = << >> THEN << >>
    ELSE LET entity == Head(host)
             area_id == IF entity.area_id = NoArea
                        THEN entity.device_area ELSE entity.area_id
         IN  IF entity.disabled
             THEN Refresh(Tail(host))
             ELSE <<[entity_id |-> entity.entity_id, area_id |-> area_id]>>
                  \o Refresh(Tail(host))

\* variant: the entities of every other area
GetByArea_Others(entities, area_id) ==
    SelectSeq(entities, LAMBDA e : e.area_id # area_id)

\* get_by_area
GetByArea(entities, area_id) ==
    SelectSeq(entities, LAMBDA e : e.area_id = area_id)

\* LSGRegistry.__init__
InitRegistry ==
    registry = [host |-> [i \in DOMAIN RegIds |-> << >>], entities |-> << >>,
                area_id |-> "none", result |-> << >>]

\* the limit the validator is built with
InitLimits == store_limit = MAX_LEARNING_STATE_SIZE

\* no state change has been reported yet
InitTasks == obs = [queue |-> << >>, serial |-> EmptyStore]

\* the integration after setup on an empty document
InitEngine ==
    /\ InitValidator
    /\ InitCache
    /\ InitRate
    /\ InitRegistry
    /\ now = StartTime
    /\ learning = EmptyStore
    /\ has_storage = TRUE
    /\ health_out = [kind |-> "none", value |-> EmptyStore]
    /\ feed_interval = 0
    /\ InitController

Init == InitEngine /\ InitLimits /\ InitTasks

\* _async_update_entity_learning, started by state_changed_listener
Observe(entity_id) ==
    LET store  == UpdateEntityLearning(learning, entity_id, now,
                                       GetCurrentThresholdMultiplier)
    IN  /\ subscribed
        /\ learning' = store
        /\ entities_changed' = entities_changed \cup {entity_id}
        /\ first_change' = IF entities_changed = {} THEN now ELSE first_change
        /\ observed' = [observed EXCEPT ![entity_id] = @ + 1]
        /\ ScheduleSaveStep(IsPrioritySave(OldHealth(learning, entity_id),
                                           store[entity_id].last_health))
        /\ UNCHANGED <<now, has_storage, mode, aliased, stored_ls, persisted,
                       last_save_time, subscribed, backstop_next, unload_pc,
                       backstop_seen, health_out, feed_interval, aux>>

EnvObserve ==
    \E e \in Entities :
        /\ SumOver(observed, Entities) < MaxEvents
        /\ Observe(e)

\* the sleep of a _delayed_save task ends: it calls _async_save_learning_state
TimerFire ==
    \E task \in sleeping :
        /\ task.due <= now
        /\ sleeping' = sleeping \ {task}
        /\ IF has_storage
           THEN /\ FlushBeginStep("timer", task)
                /\ flushes_since_call' = flushes_since_call + 1
                /\ UNCHANGED save_task
           ELSE /\ save_task' = IF save_task = task THEN NoTask ELSE save_task
                /\ UNCHANGED <<learning, aliased, stored_ls, flushing,
                               flushes_since_call>>
        /\ UNCHANGED <<now, has_storage, mode, persisted, entities_changed,
                       last_save_time, pending_save, subscribed, backstop_next,
                       unload_pc, observed, last_call, burst_len, first_change,
                       backstop_seen, health_out, feed_interval, aux>>

\* the host store's write returns: the rest of _async_save_learning_state
\* (owners timer, backstop, unload, reset), or of LSGStorage.async_save
FlushEnd ==
    /\ flushing # << >>
    /\ Head(flushing).owner # "cancelled"
    /\ LET job   == Head(flushing)
           flush == job.owner \in {"timer", "backstop", "unload", "reset"}
       IN  /\ persisted' = job.snap
           /\ last_save_time' = IF flush THEN now ELSE last_save_time
           /\ entities_changed' = IF flush THEN {} ELSE entities_changed
           /\ pending_save' = IF flush THEN FALSE ELSE pending_save
           /\ first_change' = IF flush THEN 0 ELSE first_change
           /\ save_task' = IF job.owner = "timer" /\ save_task = job.task
                           THEN NoTask ELSE save_task
           /\ subscribed' = IF job.owner = "unload" THEN FALSE ELSE subscribed
           /\ flushing' = IF job.owner = "unload"
                          THEN Append(Tail(flushing),
                                      WriteJob("storage", NoTask, DataLS))
                          ELSE Tail(flushing)
           /\ unload_pc' = CASE job.owner = "unload"  -> "storage_save"
                             [] job.owner = "storage" -> "unloaded"
                             [] OTHER                 -> unload_pc
    /\ UNCHANGED <<now, learning, has_storage, mode, aliased, stored_ls,
                   sleeping, backstop_next, observed, last_call, burst_len,
                   flushes_since_call, backstop_seen, health_out,
                   feed_interval, aux>>

\* the write of a cancelled save task: the executor job may or may not have
\* reached the disk; nothing runs after it
WriteCancelled ==
    /\ flushing # << >>
    /\ Head(flushing).owner = "cancelled"
    /\ \E landed \in BOOLEAN :
           persisted' = IF landed THEN Head(flushing).snap ELSE persisted
    /\ flushing' = Tail(flushing)
    /\ UNCHANGED <<now, learning, has_storage, mode, aliased, stored_ls,
                   entities_changed, last_save_time, pending_save, save_task,
                   sleeping, subscribed, backstop_next, unload_pc, observed,
                   last_call, burst_len, flushes_since_call, first_change,
                   backstop_seen, health_out, feed_interval, aux>>

\* _async_periodic_save, every SAVE_MAX_WAIT_SECONDS
BackstopTick ==
    /\ subscribed
    /\ backstop_next <= now
    /\ backstop_next' = backstop_next + SAVE_MAX_WAIT_SECONDS
    /\ LET elapsed == now - last_save_time
           forced  == entities_changed # {} /\ elapsed >= SAVE_MAX_WAIT_SECONDS
       IN  /\ backstop_seen' = IF entities_changed = {} THEN "clean"
                               ELSE IF forced THEN "flushed" ELSE "skipped"
           /\ IF forced /\ has_storage
              THEN FlushBeginStep("backstop", NoTask)
              ELSE UNCHANGED <<learning, aliased, stored_ls, flushing>>
    /\ UNCHANGED <<now, has_storage, mode, persisted, entities_changed,
                   last_save_time, pending_save, save_task, sleeping,
                   subscribed, unload_pc, observed, last_call, burst_len,
                   flushes_since_call, first_change, health_out,
                   feed_interval, aux>>

\* async_run_evaluation: the periodic evaluation and force_evaluation
EvaluateAll ==
    /\ unload_pc = "running"
    /\ learning' = AsyncRunEvaluation(learning, now)
    /\ UNCHANGED <<now, has_storage, mode, aliased, stored_ls, persisted,
                   entities_changed, last_save_time, pending_save, save_task,
                   sleeping, flushing, subscribed, backstop_next, unload_pc,
                   observed, last_call, burst_len, flushes_since_call,
                   first_change, backstop_seen, health_out, feed_interval, aux>>

\* mode names a command can store: set_mode admits LSG_MODES only, the
\* websocket set_config command merges any dict into the configuration
ModeInputs == LSG_MODES \cup {"party"}
MaxInFlight == 2

\* variant: the mode change rescales every stored threshold at once
SetMode_Rescale(m) ==
    /\ unload_pc = "running"
    /\ has_storage
    /\ Len(flushing) < MaxInFlight
    /\ mode' = m
    /\ learning' = [e \in DOMAIN learning |->
                       IF learning[e].interval_ewma = None THEN learning[e]
                       ELSE [learning[e] EXCEPT !.threshold =
                                DecMulTenths(learning[e].interval_ewma,
                                             IF m \in LSG_MODES
                                             THEN MODE_CONFIGS(m)
                                             ELSE MODE_CONFIGS("normal"))]]
    /\ flushing' = Append(flushing, WriteJob("config", NoTask, DataLS))
    /\ UNCHANGED <<now, has_storage, aliased, stored_ls, persisted,
                   entities_changed, last_save_time, pending_save, save_task,
                   sleeping, subscribed, backstop_next, unload_pc, observed,
                   last_call, burst_len, flushes_since_call, first_change,
                   backstop_seen, health_out, feed_interval, aux>>

\* handle_set_mode / ws_set_mode / ws_set_config: LSGStorage.async_update
\* stores the mode and writes the whole document
SetMode(m) ==
    /\ unload_pc = "running"
    /\ has_storage
    /\ Len(flushing) < MaxInFlight
    /\ mode' = m
    /\ flushing' = Append(flushing, WriteJob("config", NoTask, DataLS))
    /\ UNCHANGED <<now, learning, has_storage, aliased, stored_ls, persisted,
                   entities_changed, last_save_time, pending_save, save_task,
                   sleeping, subscribed, backstop_next, unload_pc, observed,
                   last_call, burst_len, flushes_since_call, first_change,
                   backstop_seen, health_out, feed_interval, aux>>

\* handle_set_mode / ws_set_mode: the schema vol.In(LSG_MODES) refuses any
\* other name before the handler runs
HandleSetMode == \E m \in ModeInputs : m \in LSG_MODES /\ m # mode /\ SetMode(m)

\* ws_set_config: the schema asks for a dict only, and the handler merges
\* whatever modes.current it carries
WsSetConfig == \E m \in ModeInputs : m # mode /\ SetMode(m)

EnvSetMode == HandleSetMode \/ WsSetConfig

\* async_unload from "Force final save" on
UnloadFlushStep ==
    IF has_storage
    THEN /\ FlushBeginStep("unload", NoTask)
         /\ unload_pc' = "final_flush"
         /\ UNCHANGED subscribed
    ELSE /\ subscribed' = FALSE
         /\ unload_pc' = "unloaded"
         /\ UNCHANGED <<learning, aliased, stored_ls, flushing>>

\* async_unload_entry -> _async_cleanup -> LSGEvaluator.async_unload, up to
\* its first suspension
UnloadBegin ==
    /\ unload_pc = "running"
    /\ IF TaskLive(save_task)
       THEN /\ sleeping' = CancelSleeping(sleeping, save_task)
            /\ flushing' = CancelWriting(flushing, save_task)
            /\ save_task' = NoTask
            /\ unload_pc' = "await_task"
            /\ UNCHANGED <<learning, aliased, stored_ls, subscribed>>
       ELSE /\ UnloadFlushStep
            /\ UNCHANGED <<sleeping, save_task>>
    /\ UNCHANGED <<now, has_storage, mode, persisted, entities_changed,
                   last_save_time, pending_save, backstop_next, observed,
                   last_call, burst_len, flushes_since_call, first_change,
                   backstop_seen, health_out, feed_interval, aux>>

\* the cancelled save task has ended: async_unload goes on
UnloadResume ==
    /\ unload_pc = "await_task"
    /\ UnloadFlushStep
    /\ UNCHANGED <<now, has_storage, mode, persisted, entities_changed,
                   last_save_time, pending_save, save_task, sleeping,
                   backstop_next, observed, last_call, burst_len,
                   flushes_since_call, first_change, backstop_seen, health_out,
                   feed_interval, aux>>

(***************************************************************************)
(* The clock.  A timer fires when it is due: the clock never passes the    *)
(* expiry of a sleeping save task or the next backstop tick.               *)
(***************************************************************************)
Deadlines ==
    {task.due : task \in sleeping}
        \cup (IF subscribed THEN {backstop_next} ELSE {})

ClockCanAdvance ==
    /\ flushing = << >>
    /\ unload_pc # "await_task"
    /\ \A d \in Deadlines : d > now

ClockFrame ==
    UNCHANGED <<learning, has_storage, mode, aliased, stored_ls, persisted,
                entities_changed, last_save_time, pending_save, save_task,
                sleeping, flushing, subscribed, backstop_next, unload_pc,
                observed, last_call, burst_len, flushes_since_call,
                first_change, backstop_seen, health_out, feed_interval, aux>>

\* a short while passes
Tick ==
    /\ ClockCanAdvance
    /\ now < StartTime + FineHorizon
    /\ now' = SetMin(Deadlines \cup {now + TimeStep})
    /\ ClockFrame

\* nothing happens until the next timer is due
Idle ==
    /\ ClockCanAdvance
    /\ Deadlines # {}
    /\ SetMin(Deadlines) <= StartTime + MaxTime
    /\ now' = SetMin(Deadlines)
    /\ ClockFrame

Next ==
    \/ EnvObserve
    \/ TimerFire
    \/ FlushEnd
    \/ WriteCancelled
    \/ BackstopTick
    \/ EvaluateAll
    \/ UnloadBegin
    \/ UnloadResume
    \/ Tick
    \/ Idle

Spec == Init /\ [][Next]_vars

(***************************************************************************)
(* The engine under mode changes: events, evaluations, the save timer and  *)
(* commands that store a mode.                                             *)
(***************************************************************************)
NextMode ==
    \/ EnvObserve
    \/ EnvSetMode
    \/ TimerFire
    \/ FlushEnd
    \/ WriteCancelled
    \/ EvaluateAll
    \/ Tick

SpecMode == Init /\ [][NextMode]_vars

(***************************************************************************)
(* The persistence controller driven through its contract: besides the    *)
(* calls the event handler makes, _async_schedule_save(priority=True) is   *)
(* called directly.                                                        *)
(***************************************************************************)
PrioritySave ==
    /\ subscribed
    /\ burst_len < MaxEvents
    /\ ScheduleSaveStep(TRUE)
    /\ UNCHANGED <<now, learning, has_storage, mode, aliased, stored_ls,
                   persisted, entities_changed, last_save_time, subscribed,
                   backstop_next, unload_pc, observed, first_change,
                   backstop_seen, health_out, feed_interval, aux>>

NextCtl ==
    \/ EnvObserve
    \/ PrioritySave
    \/ TimerFire
    \/ FlushEnd
    \/ WriteCancelled
    \/ Tick

SpecCtl == Init /\ [][NextCtl]_vars

(***************************************************************************)
(* The classifier as a function of a record and the elapsed time: the      *)
(* store holds one record as loaded from the persisted document, the clock *)
(* stands anywhere from the record's last event on, and the three queries  *)
(* are asked.                                                              *)
(***************************************************************************)
ClsMaxCount == 3
ClsMaxElapsed == 220
ClsEntity == "sensor.a"

\* no threshold, 0, 100 and 37.5
ClsThresholds ==
    {None, DecInt(0), DecInt(100), [m |-> BigOf(375), k |-> 1]}

ClsRecord(count, threshold) ==
    [last_event    |-> StartTime,
     interval_ewma |-> IF threshold = None THEN None
                       ELSE DecMulTenths(threshold, 2),
     event_count   |-> count,
     threshold     |-> threshold,
     last_health   |-> HEALTH_UNKNOWN,
     history       |-> << >>]

ClsInit ==
    /\ \E count \in 0..ClsMaxCount, threshold \in ClsThresholds :
           learning = StorePut(EmptyStore, ClsEntity,
                               ClsRecord(count, threshold))
    /\ now \in StartTime..(StartTime + ClsMaxElapsed)
    /\ InitValidator
    /\ InitCache
    /\ InitRate
    /\ InitRegistry
    /\ InitLimits
    /\ InitTasks
    /\ has_storage = TRUE
    /\ health_out = [kind |-> "none", value |-> EmptyStore]
    /\ feed_interval = 0
    /\ InitController

ClsFrame ==
    UNCHANGED <<now, has_storage, mode, aliased, stored_ls, persisted,
                entities_changed, last_save_time, pending_save, save_task,
                sleeping, flushing, subscribed, backstop_next, unload_pc,
                observed, last_call, burst_len, flushes_since_call,
                first_change, backstop_seen, feed_interval, aux>>

\* get_entity_health
ClsGetEntityHealth ==
    \E e \in Entities :
        /\ health_out' = IF EvaluateRaises(learning, e)
                          THEN [kind |-> "get_entity_health raised", value |-> EmptyStore]
                          ELSE [kind  |-> "get_entity_health",
                                value |-> StorePut(EmptyStore, e,
                                                   GetEntityHealth(e))]
        /\ UNCHANGED learning
        /\ ClsFrame

\* get_all_health_states
ClsGetAllHealthStates ==
    /\ health_out' = IF \E e \in DOMAIN learning : EvaluateRaises(learning, e)
                      THEN [kind |-> "get_all_health_states raised", value |-> EmptyStore]
                      ELSE [kind |-> "get_all_health_states",
                            value |-> GetAllHealthStates]
    /\ UNCHANGED learning
    /\ ClsFrame

\* async_run_evaluation: the results it returns and the last_health it sets.
\* When a record makes _evaluate_health raise, the loop ends there: the
\* records the dict holds before it have their last_health set, which ones
\* depends on the insertion order, and no result is returned.
ClsRunEvaluation ==
    /\ IF \E e \in DOMAIN learning : EvaluateRaises(learning, e)
       THEN /\ \E done \in SUBSET {e \in DOMAIN learning :
                                       ~EvaluateRaises(learning, e)} :
                   learning' = [e \in DOMAIN learning |->
                                   IF e \in done
                                   THEN AsyncRunEvaluation(learning, now)[e]
                                   ELSE learning[e]]
            /\ health_out' = [kind |-> "run_evaluation raised", value |-> EmptyStore]
       ELSE /\ learning' = AsyncRunEvaluation(learning, now)
            /\ health_out' = [kind  |-> "run_evaluation",
                              value |-> [e \in DOMAIN learning |->
                                            EvaluateHealth(learning, e, now)]]
    /\ ClsFrame

NextClassify ==
    \/ ClsGetEntityHealth
    \/ ClsGetAllHealthStates
    \/ ClsRunEvaluation

SpecClassify == ClsInit /\ [][NextClassify]_vars

(***************************************************************************)
(* A constant-interval feed: one entity reports every feed_interval        *)
(* seconds, FeedEvents times, to an evaluator that has no storage (its     *)
(* multiplier is then 2.5); afterwards the entity stays silent.            *)
(***************************************************************************)
FeedEvents == 10
FeedTail == 320
FeedIntervals == {10, 60}
FeedEntity == "sensor.a"

FeedInit ==
    /\ InitValidator
    /\ InitCache
    /\ InitRate
    /\ InitRegistry
    /\ InitLimits
    /\ InitTasks
    /\ now = StartTime
    /\ learning = EmptyStore
    /\ has_storage = FALSE
    /\ health_out = [kind |-> "none", value |-> EmptyStore]
    /\ feed_interval \in FeedIntervals
    /\ InitController

\* the time of the next report
FeedDue ==
    IF observed[FeedEntity] >= 1 /\ observed[FeedEntity] < FeedEvents
    THEN {learning[FeedEntity].last_event + feed_interval}
    ELSE {}

FeedObserve ==
    /\ observed[FeedEntity] < FeedEvents
    /\ observed[FeedEntity] >= 1 => now \in FeedDue
    /\ Observe(FeedEntity)

FeedTick ==
    /\ observed[FeedEntity] >= 1
    /\ \A d \in Deadlines \cup FeedDue : d > now
    /\ now < learning[FeedEntity].last_event + FeedTail
    /\ now' = SetMin(Deadlines \cup FeedDue \cup {now + TimeStep})
    /\ ClockFrame

NextFeed ==
    \/ FeedObserve
    \/ FeedTick
    \/ TimerFire
    \/ BackstopTick

SpecFeed == FeedInit /\ [][NextFeed]_vars

(***************************************************************************)
(* Properties                                                              *)
(***************************************************************************)

\* C1: for every entity, after N observe operations on it its event_count
\* equals N (an entity never observed has no record), whatever the
\* interleaving with observations of other entities, evaluations, flushes,
\* backstop ticks and the unload.
C1_MonotonicEventCount ==
    \A e \in Entities :
        IF e \in DOMAIN learning
        THEN learning[e].event_count = observed[e] /\ observed[e] >= 1
        ELSE observed[e] = 0

\* two observations of sensor.a with one of sensor.b between them
C1_Witness ==
    /\ DOMAIN learning = Entities
    /\ learning["sensor.a"].event_count = 2
    /\ learning["sensor.b"].event_count = 1
    /\ learning["sensor.a"].history[1].timestamp
           < learning["sensor.b"].last_event
    /\ learning["sensor.b"].last_event < learning["sensor.a"].last_event

\* ten times the value of a threshold with at most one decimal place
ThresholdTenths(threshold) ==
    LET m == threshold.m.hi * Base + threshold.m.lo
    IN  IF threshold.k = 0 THEN 10 * m ELSE m

\* the class the boundaries 1.1 * T and 2.0 * T assign, in integers
ClassOf(elapsed, t10) ==
    IF 100 * elapsed < 11 * t10 THEN HEALTH_OK
    ELSE IF 10 * elapsed < 2 * t10 THEN HEALTH_LATE
    ELSE HEALTH_STALE

Classifiable(rec) ==
    /\ rec.event_count >= 2
    /\ rec.threshold # None
    /\ ~DecLeqZero(rec.threshold)

C3_ColdStart ==
    \A e \in Entities :
        (e \notin DOMAIN learning \/ learning[e].event_count < 2) =>
            /\ GetEntityHealth(e) = HEALTH_UNKNOWN
            /\ e \in DOMAIN learning
                  => GetAllHealthStates[e] = HEALTH_UNKNOWN
            /\ e \in DOMAIN health_out.value
                  => health_out.value[e] = HEALTH_UNKNOWN
            /\ (health_out.kind = "run_evaluation" /\ e \in DOMAIN learning)
                  => learning[e].last_health = HEALTH_UNKNOWN

\* the full evaluation met a record with one event and a threshold long
\* exceeded
C3_Witness ==
    /\ health_out.kind = "run_evaluation"
    /\ learning[ClsEntity].event_count = 1
    /\ learning[ClsEntity].threshold = DecInt(100)
    /\ now - learning[ClsEntity].last_event >= 200
    /\ health_out.value[ClsEntity] = HEALTH_UNKNOWN

\* the multiplier, in tenths, of the mode that is current: MODE_CONFIGS of
\* a known mode, the normal mode's for any other name
ModeMultiplier ==
    CASE mode = "vacation" -> 80
      [] mode = "night"    -> 40
      [] OTHER             -> 50

\* C4: every observe leaves the entity's threshold equal to its
\* interval_ewma times the multiplier of the mode current at that update,
\* an unknown mode name counting as normal, for every sequence of events
\* and mode changes.
C4_ThresholdScaling ==
    [][\A e \in Entities :
          observed'[e] = observed[e] + 1 =>
              learning'[e].threshold
                  = DecMulTenths(learning'[e].interval_ewma, ModeMultiplier)]_vars

\* an observation under the vacation mode has just set a positive
\* threshold, eight times the average and not five times
C4_Witness ==
    /\ mode = "vacation"
    /\ \E e \in DOMAIN learning :
          /\ learning[e].event_count >= 2
          /\ learning[e].last_event = now
          /\ ~DecLeqZero(learning[e].interval_ewma)
          /\ learning[e].threshold = DecMulTenths(learning[e].interval_ewma, 80)
          /\ learning[e].threshold # DecMulTenths(learning[e].interval_ewma, 50)

Within(x, lo, hi) == ~DecLess(x, lo) /\ ~DecLess(hi, x)

\* C5: after 10 events 60 s apart interval_ewma is 60 within 1e-3 and, the
\* multiplier being 2.5, the threshold is 150; with no further event the
\* entity is late at elapsed 170 s and stale at elapsed 310 s.
C5_Scenario ==
    (feed_interval = 60 /\ observed[FeedEntity] = 10) =>
        LET rec     == learning[FeedEntity]
            elapsed == now - rec.last_event
        IN  /\ Within(rec.interval_ewma, [m |-> BigOf(59999), k |-> 3],
                                         [m |-> BigOf(60001), k |-> 3])
            /\ Within(rec.threshold, [m |-> BigOf(1499975), k |-> 4],
                                     [m |-> BigOf(1500025), k |-> 4])
            /\ elapsed = 170 => GetEntityHealth(FeedEntity) = HEALTH_LATE
            /\ elapsed = 310 => GetEntityHealth(FeedEntity) = HEALTH_STALE

\* i * 0.7^n
RECURSIVE Geometric(_, _)
Geometric(i, n) ==
    IF n = 0 THEN DecInt(i) ELSE DecMulTenths(Geometric(i, n - 1), 7)

\* C6: with alpha = 0.3 the first observation sets interval_ewma to the
\* observed interval and every later one to 0.7 * old + 0.3 * interval, so
\* that under a constant interval I the distance from I shrinks by exactly
\* the factor 0.7 per observation: after n observations, the first of which
\* left the distance d1, interval_ewma + d1 * 0.7^(n - 1) = I.
C6_EwmaGeometric ==
    \A e \in DOMAIN learning :
        LET rec == learning[e]
            d1  == feed_interval - rec.history[1].interval
        IN  rec.event_count >= 1 =>
              /\ rec.event_count = 1
                    => rec.interval_ewma = DecInt(rec.history[1].interval)
              /\ DecAdd(rec.interval_ewma, Geometric(d1, rec.event_count - 1))
                    = DecInt(feed_interval)
              /\ DecLess(rec.interval_ewma, DecInt(feed_interval))

\* five observations in: the distance is I * 0.7^4 = 0.2401 * I
C6_Witness ==
    /\ FeedEntity \in DOMAIN learning
    /\ learning[FeedEntity].event_count = 5
    /\ feed_interval = 60
    /\ learning[FeedEntity].interval_ewma = [m |-> BigOf(45594), k |-> 3]

\* the flushes a _delayed_save task started, cancelled since or not
TimerJobs ==
    {i \in 1..Len(flushing) : flushing[i].owner \in {"timer", "cancelled"}}

\* C7: calls of schedule_save(false) less than D = 30 s apart end in exactly
\* one timer flush, started D seconds after the last of them: the only
\* timer pending is the one the last call armed, due D after it; a timer
\* flush starts when its timer is due and not otherwise; no second one
\* starts before the next call; and once D has passed since the last call
\* the flush has started.
C7_DebounceCoalescing ==
    /\ Cardinality(sleeping) <= 1
    /\ \A task \in sleeping :
          /\ task = save_task
          /\ task.armed = last_call.at
          /\ task.due = last_call.at + SAVE_DEBOUNCE_SECONDS
          /\ now <= task.due
    /\ \A i \in TimerJobs :
          /\ flushing[i].started = flushing[i].task.armed + SAVE_DEBOUNCE_SECONDS
          /\ flushing[i].owner = "timer"
                => flushing[i].task.armed = last_call.at
    /\ flushes_since_call <= 1
    /\ (last_call.at > 0 /\ unload_pc = "running"
            /\ now > last_call.at + SAVE_DEBOUNCE_SECONDS)
          => flushes_since_call = 1

\* a run of at least two calls, and its one flush starting D after the last
C7_Witness ==
    /\ burst_len >= 2
    /\ flushes_since_call = 1
    /\ Len(flushing) = 1
    /\ flushing[1].owner = "timer"
    /\ flushing[1].started = last_call.at + SAVE_DEBOUNCE_SECONDS
    /\ now = flushing[1].started

\* C8: a schedule_save(true) call at time t replaces the pending timer, a
\* longer non-priority one included, by one due at t + 5, and the flush
\* starts no later than t + 5: the only timer pending is the one the last
\* call armed; a priority timer is due 5 s after its call and never
\* overdue; a flush started by a priority timer started within 5 s of the
\* call; and once 5 s have passed since a priority call that was the last
\* call, the flush has started.
C8_PriorityFastPath ==
    /\ \A task \in sleeping :
          /\ task = save_task
          /\ task.armed = last_call.at
          /\ task.prio = last_call.prio
          /\ task.prio => (task.due = task.armed + 5 /\ now <= task.due)
    /\ \A i \in TimerJobs :
          flushing[i].task.prio
              => flushing[i].started <= flushing[i].task.armed + 5
    /\ (last_call.prio /\ now > last_call.at + 5) => flushes_since_call = 1

\* a priority timer started its flush while the non-priority timer it
\* replaced would still be pending
C8_Witness ==
    \E i \in 1..Len(flushing) :
        /\ flushing[i].owner = "timer"
        /\ flushing[i].task.prio
        /\ flushing[i].task.replaced > flushing[i].started
        /\ flushing[i].started <= flushing[i].task.armed + 5
        /\ flushes_since_call = 1

\* C9: a flush occurs within M = 300 s of the first unflushed change, and
\* every backstop tick that finds the changed set non-empty forces a flush.
C9_BackstopGuarantee ==
    /\ entities_changed # {} => now - first_change <= SAVE_MAX_WAIT_SECONDS
    /\ backstop_seen # "skipped"

\* C10: when the unload has completed no save timer is armed and the
\* persisted learning state equals the in-memory store.
C10_CleanShutdown ==
    unload_pc = "unloaded" =>
        /\ sleeping = {}
        /\ persisted = learning

(***************************************************************************)
(* Failing writes: the host store's write raises.  LSGStorage.async_save   *)
(* catches and logs the error, so async_set returns normally and what      *)
(* follows the write in the caller runs as after a successful write.       *)
(***************************************************************************)
FlushFail ==
    /\ flushing # << >>
    /\ Head(flushing).owner # "cancelled"
    /\ LET job   == Head(flushing)
           flush == job.owner \in {"timer", "backstop", "unload", "reset"}
       IN  /\ persisted' = persisted
           /\ last_save_time' = IF flush THEN now ELSE last_save_time
           /\ entities_changed' = IF flush THEN {} ELSE entities_changed
           /\ pending_save' = IF flush THEN FALSE ELSE pending_save
           /\ first_change' = IF flush THEN 0 ELSE first_change
           /\ save_task' = IF job.owner = "timer" /\ save_task = job.task
                           THEN NoTask ELSE save_task
           /\ subscribed' = IF job.owner = "unload" THEN FALSE ELSE subscribed
           /\ flushing' = IF job.owner = "unload"
                          THEN Append(Tail(flushing),
                                      WriteJob("storage", NoTask, DataLS))
                          ELSE Tail(flushing)
           /\ unload_pc' = CASE job.owner = "unload"  -> "storage_save"
                             [] job.owner = "storage" -> "unloaded"
                             [] OTHER                 -> unload_pc
    /\ UNCHANGED <<now, learning, has_storage, mode, aliased, stored_ls,
                   sleeping, backstop_next, observed, last_call, burst_len,
                   flushes_since_call, backstop_seen, health_out,
                   feed_interval, aux>>

NextFail ==
    \/ EnvObserve
    \/ TimerFire
    \/ FlushEnd
    \/ FlushFail
    \/ WriteCancelled
    \/ BackstopTick
    \/ Tick
    \/ Idle

SpecFail == Init /\ [][NextFail]_vars

\* a step in which the write of a flush ends without having reached the
\* persisted document
FailedFlushStep ==
    /\ flushing # << >>
    /\ Head(flushing).owner \in {"timer", "backstop"}
    /\ Head(flushing).snap # persisted
    /\ flushing' = Tail(flushing)
    /\ persisted' = persisted

\* C11: when the store write of a flush fails, the in-memory store is
\* retained and the flush is still owed: the changed set and the last-flush
\* time are left as they were, so that the next trigger retries.
C11_FailedFlushOwed ==
    [][FailedFlushStep =>
          /\ learning' = learning
          /\ entities_changed' = entities_changed
          /\ last_save_time' = last_save_time]_vars

\* C12: a schedule_save request that arrives while a flush is in progress
\* (its timer expired, its write suspended) does not cancel that flush: no
\* write in flight belongs to a cancelled save task.
C12_FlushInProgressKept ==
    \A i \in 1..Len(flushing) : flushing[i].owner # "cancelled"

(***************************************************************************)
(* DataValidator.validate_learning_state on any document.                  *)
(* A field value is a tagged pair: absent (the key is missing), none, num  *)
(* (an int or float), numstr (the decimal string of a number) or str (any  *)
(* other string).  A history is absent, str (not a list) or a list of      *)
(* events; an event is a mapping with a timestamp value, or not a mapping. *)
(* interval_ewma and interval_variance are treated exactly as threshold    *)
(* is, and are left out.  A document is a mapping, its items kept in       *)
(* insertion order, or something else.                                     *)
(***************************************************************************)
Absent == [t |-> "absent", v |-> 0]
NoneV == [t |-> "none", v |-> 0]
StrV == [t |-> "str", v |-> 0]
Num(n) == [t |-> "num", v |-> n]
NumStr(n) == [t |-> "numstr", v |-> n]

RawEvent(ts) == [dict |-> TRUE, ts |-> ts]
NotAnEvent == [dict |-> FALSE, ts |-> Absent]

RawRecord(last_event, event_count, threshold, last_health, ht, events) ==
    [dict |-> TRUE, last_event |-> last_event, event_count |-> event_count,
     threshold |-> threshold, last_health |-> last_health,
     history |-> [t |-> ht, v |-> events]]

NotARecord ==
    [dict |-> FALSE, last_event |-> Absent, event_count |-> Absent,
     threshold |-> Absent, last_health |-> "absent",
     history |-> [t |-> "absent", v |-> << >>]]

Returned(ok, items) == [status |-> "returned", ok |-> ok, cleaned |-> items]
Raised == [status |-> "raised"]

\* x[1].get("last_event", 0)
SortKey(entry) ==
    IF entry.last_event.t = "absent" THEN Num(0) ELSE entry.last_event

IsString(x) == x.t \in {"numstr", "str"}

\* a < b between two numbers or two strings (decimal strings of the same
\* length sort as their numbers do, and before a string of letters)
KeyLess(a, b) ==
    IF a.t = "num" THEN a.v < b.v
    ELSE \/ a.t = "numstr" /\ b.t = "str"
         \/ a.t = "numstr" /\ b.t = "numstr" /\ a.v < b.v

\* sorted() over two or more items raises when an item is not a mapping
\* (it has no get) or when the keys cannot be ordered: a None, or numbers
\* mixed with strings
SortRaises(items) ==
    \/ \E i \in 1..Len(items) : ~items[i].entry.dict
    \/ \E i \in 1..Len(items) : SortKey(items[i].entry).t = "none"
    \/ \E i, j \in 1..Len(items) :
          SortKey(items[i].entry).t = "num" /\ IsString(SortKey(items[j].entry))

\* variant: the least key first
RECURSIVE InsertByKey_Ascending(_, _)
InsertByKey_Ascending(sorted, x) ==
    IF sorted = << >> THEN << x >>
    ELSE IF KeyLess(SortKey(x.entry), SortKey(Head(sorted).entry))
         THEN << x >> \o sorted
         ELSE << Head(sorted) >> \o InsertByKey_Ascending(Tail(sorted), x)

\* x put into a list sorted greatest key first, behind the items whose key
\* is not less than its own (the sort is stable)
RECURSIVE InsertByKey(_, _)
InsertByKey(sorted, x) ==
    IF sorted = << >> THEN << x >>
    ELSE IF KeyLess(SortKey(Head(sorted).entry), SortKey(x.entry))
         THEN << x >> \o sorted
         ELSE << Head(sorted) >> \o InsertByKey(Tail(sorted), x)

RECURSIVE SortedByLastEvent(_)
SortedByLastEvent(items) ==
    IF items = << >> THEN << >>
    ELSE InsertByKey(SortedByLastEvent(SubSeq(items, 1, Len(items) - 1)),
                     items[Len(items)])

\* float(value), None when it raises ValueError or TypeError
ToFloat(x) ==
    CASE x.t = "absent" -> x
      [] x.t \in {"num", "numstr"} -> Num(x.v)
      [] OTHER -> NoneV

\* int(value), 0 when it raises or when the count is negative
ToCount(x) ==
    IF x.t \in {"num", "numstr"} /\ x.v >= 0 THEN Num(x.v) ELSE Num(0)

\* event.get("timestamp", 0) > now - max_age_seconds raises TypeError
EventRaises(event) == event.dict /\ event.ts.t \notin {"num", "absent"}

EventKept(event, cutoff) ==
    /\ event.dict
    /\ (IF event.ts.t = "absent" THEN 0 ELSE event.ts.v) > cutoff

RECURSIVE SelectEvents(_, _)
SelectEvents(h, cutoff) ==
    IF h = << >> THEN << >>
    ELSE IF EventKept(Head(h), cutoff)
         THEN << Head(h) >> \o SelectEvents(Tail(h), cutoff)
         ELSE SelectEvents(Tail(h), cutoff)

\* variant: a history over the limit loses its oldest event
TrimHistory_DropOldest(h) ==
    IF Len(h) > MAX_HISTORY_PER_ENTITY THEN Tail(h) ELSE h

\* state["history"][-MAX_HISTORY_PER_ENTITY:] when over the limit
TrimHistory(h) == LastN(h, MAX_HISTORY_PER_ENTITY)

\* the entry is skipped: not a mapping, or a required field missing
EntrySkipped(entry) ==
    \/ ~entry.dict
    \/ entry.last_event.t = "absent"
    \/ entry.event_count.t = "absent"

EntryRaises(entry) ==
    /\ ~EntrySkipped(entry)
    /\ entry.history.t = "list"
    /\ \E i \in 1..Len(entry.history.v) : EventRaises(entry.history.v[i])

CleanEntry(entry, t) ==
    [entry EXCEPT
        !.history     = IF @.t = "list"
                        THEN [@ EXCEPT !.v = TrimHistory(SelectEvents(
                                 @, t - MAX_HISTORY_AGE_DAYS * 86400))]
                        ELSE @,
        !.last_event  = ToFloat(@),
        !.threshold   = ToFloat(@),
        !.event_count = ToCount(@),
        !.last_health = IF @ \in HealthStates \cup {"absent"}
                        THEN @ ELSE HEALTH_UNKNOWN]

RECURSIVE CleanItems(_, _)
CleanItems(items, t) ==
    IF items = << >> THEN << >>
    ELSE IF EntrySkipped(Head(items).entry)
         THEN CleanItems(Tail(items), t)
         ELSE << [Head(items) EXCEPT !.entry = CleanEntry(@, t)] >>
                  \o CleanItems(Tail(items), t)

\* validate_learning_state at time t, the size limit being max_size
ValidateRaw(doc, t, max_size) ==
    IF doc.kind # "dict" THEN Returned(FALSE, << >>)
    ELSE IF Len(doc.items) > max_size /\ SortRaises(doc.items)
    THEN Raised
    ELSE LET items == IF Len(doc.items) > max_size
                      THEN SubSeq(SortedByLastEvent(doc.items), 1, max_size)
                      ELSE doc.items
         IN  IF \E i \in 1..Len(items) : EntryRaises(items[i].entry)
             THEN Raised
             ELSE Returned(TRUE, CleanItems(items, t))

(***************************************************************************)
(* The validator applied to documents of up to ValMaxLen entries, the size *)
(* limit being ValCap, at a fixed time; a returned store can be validated  *)
(* again.                                                                  *)
(***************************************************************************)
ValCap == 2
ValMaxLen == 3
ValNow == StartTime + 31 * 86400
ValIds == << "e1", "e2", "e3", "e4" >>

RecentEvent == RawEvent(Num(ValNow - 10))
OldEvent == RawEvent(Num(ValNow - MAX_HISTORY_AGE_DAYS * 86400))

ValEntries ==
    { RawRecord(Num(10), Num(3), Num(5), "ok", "list", << RecentEvent >>),
      RawRecord(Num(20), Num(2), NoneV, "late", "list",
                << OldEvent, RecentEvent >>),
      RawRecord(Num(30), Num(5), Num(7), "stale", "absent", << >>),
      RawRecord(NumStr(20), NumStr(2), StrV, "bogus", "list",
                << NotAnEvent, RecentEvent >>),
      RawRecord(NoneV, Num(2), Num(5), "ok", "list", << >>),
      RawRecord(Absent, Num(1), Num(5), "ok", "list", << >>),
      RawRecord(Num(15), Num(-1), NumStr(5), "unknown", "str", << >>),
      RawRecord(Num(25), Num(4), Num(5), "ok", "list", << RawEvent(NoneV) >>),
      RawRecord(Num(12), Num(60), Num(5), "ok", "list",
                [i \in 1..(MAX_HISTORY_PER_ENTITY + 2) |->
                    RawEvent(Num(ValNow - 100 + i))]),
      NotARecord }

ValDocs ==
    {[kind |-> "other", items |-> << >>]} \cup
    UNION {{[kind  |-> "dict",
             items |-> [i \in 1..n |-> [id |-> ValIds[i], entry |-> f[i]]]] :
               f \in [1..n -> ValEntries]} : n \in 0..ValMaxLen}

ValInit ==
    /\ val_in \in ValDocs
    /\ val_out = [status |-> "none"]
    /\ InitCache
    /\ InitRate
    /\ InitRegistry
    /\ InitLimits
    /\ InitTasks
    /\ now = ValNow
    /\ learning = EmptyStore
    /\ has_storage = TRUE
    /\ health_out = [kind |-> "none", value |-> EmptyStore]
    /\ feed_interval = 0
    /\ InitController

ValFrame ==
    UNCHANGED <<now, learning, has_storage, mode, aliased, stored_ls,
                persisted, entities_changed, last_save_time, pending_save,
                save_task, sleeping, flushing, subscribed, backstop_next,
                unload_pc, observed, last_call, burst_len, flushes_since_call,
                first_change, backstop_seen, health_out, feed_interval,
                cache, cache_hist, aux2>>

\* validate_learning_state(document)
ValRun ==
    /\ val_out.status = "none"
    /\ val_out' = ValidateRaw(val_in, now, ValCap)
    /\ UNCHANGED val_in
    /\ ValFrame

\* validate_learning_state(cleaned_state), on the store just returned
ValAgain ==
    /\ val_out.status = "returned"
    /\ val_in.kind # "dict" \/ val_in.items # val_out.cleaned
    /\ val_in' = [kind |-> "dict", items |-> val_out.cleaned]
    /\ val_out' = ValidateRaw(val_in', now, ValCap)
    /\ ValFrame

NextValidate ==
    \/ ValRun
    \/ ValAgain

SpecValidate == ValInit /\ [][NextValidate]_vars

\* a store as the mapping it is: its items without their order
AsMap(items) == {items[i] : i \in 1..Len(items)}

\* C13: validating the cleaned result of a validation again, at the same
\* time, returns ok = true and a cleaned store identical to its input.
C13_ValidatorIdempotent ==
    val_out.status = "returned" =>
        LET again == ValidateRaw([kind |-> "dict", items |-> val_out.cleaned],
                                 now, ValCap)
        IN  /\ again.status = "returned"
            /\ again.ok
            /\ AsMap(again.cleaned) = AsMap(val_out.cleaned)

\* a second validation has run on a store the first one had to clean
C13_Witness ==
    /\ val_in.kind = "dict"
    /\ val_out.status = "returned"
    /\ val_out.ok
    /\ val_in.items = val_out.cleaned
    /\ \E i \in 1..Len(val_in.items) :
          /\ Len(val_in.items[i].entry.history.v) = MAX_HISTORY_PER_ENTITY
    /\ \E i \in 1..Len(val_in.items) :
          val_in.items[i].entry.last_health = HEALTH_UNKNOWN

\* a record as the engine writes it: a mapping with a numeric last_event,
\* an event_count and a history of timestamped events
WellFormed(entry) ==
    /\ entry.dict
    /\ entry.last_event.t = "num"
    /\ entry.event_count.t # "absent"
    /\ ~EntryRaises(entry)

OverCap ==
    /\ val_in.kind = "dict"
    /\ Len(val_in.items) > ValCap
    /\ \A i \in 1..Len(val_in.items) : WellFormed(val_in.items[i].entry)
    /\ val_out.status # "none"

\* C14: validating a store of max_size + K records (K > 0) retains exactly
\* max_size of them, and no record dropped has a last_event greater than
\* that of a record retained.
C14_SizeCapEviction ==
    OverCap =>
        /\ val_out.status = "returned"
        /\ Len(val_out.cleaned) = ValCap
        /\ Cardinality({val_out.cleaned[i].id : i \in 1..ValCap}) = ValCap
        /\ \A i \in 1..Len(val_in.items) :
              LET item == val_in.items[i]
                  kept == \E j \in 1..ValCap : val_out.cleaned[j].id = item.id
              IN  ~kept =>
                    \A j \in 1..ValCap :
                        val_out.cleaned[j].entry.last_event.v
                            >= item.entry.last_event.v

\* the record inserted first is among the most recent and is retained, a
\* later and older one is dropped
C14_Witness ==
    /\ OverCap
    /\ val_out.status = "returned"
    /\ \E j \in 1..ValCap : val_out.cleaned[j].id = val_in.items[1].id
    /\ \E i \in 2..Len(val_in.items) :
          /\ \A j \in 1..ValCap : val_out.cleaned[j].id # val_in.items[i].id
          /\ val_in.items[i].entry.last_event.v
                 < val_in.items[1].entry.last_event.v

\* C15: validate_learning_state never raises: for every document it
\* returns a triple.
C15_ValidatorNeverRaises == val_out.status # "raised"

(***************************************************************************)
(* A store loaded with one record whose last_event the validator reset to  *)
(* None, beside a sound record: queries, evaluations and further events.   *)
(***************************************************************************)
BadEntity == "sensor.a"
GoodEntity == "sensor.b"
BadElapsed == {50, 150, 250}

BadInit ==
    /\ \E count \in 1..ClsMaxCount :
          learning = StorePut(
              StorePut(EmptyStore, GoodEntity, ClsRecord(2, DecInt(100))),
              BadEntity,
              [ClsRecord(count, DecInt(100)) EXCEPT !.last_event = NoTime])
    /\ now \in {StartTime + d : d \in BadElapsed}
    /\ InitValidator
    /\ InitCache
    /\ InitRate
    /\ InitRegistry
    /\ InitLimits
    /\ InitTasks
    /\ has_storage = TRUE
    /\ health_out = [kind |-> "none", value |-> EmptyStore]
    /\ feed_interval = 0
    /\ InitController

NextBad ==
    \/ ClsGetEntityHealth
    \/ ClsGetAllHealthStates
    \/ ClsRunEvaluation
    \/ EnvObserve

SpecBad == BadInit /\ [][NextBad]_vars

\* C16: a bad record never prevents get_all_health_states or the full
\* evaluation from classifying every other tracked entity, and the event
\* subscription stays: neither call ends in an exception, and each answers
\* for every sound record.
C16_ErrorIsolation ==
    /\ subscribed
    /\ health_out.kind \notin {"get_all_health_states raised",
                               "run_evaluation raised"}
    /\ health_out.kind \in {"get_all_health_states", "run_evaluation"}
          => \A e \in DOMAIN learning :
                 ~EvaluateRaises(learning, e) => e \in DOMAIN health_out.value

\* C17: after any sequence of set-mode and set-config commands the stored
\* config.modes.current is one of normal, vacation, night.
C17_ModeValid == mode \in LSG_MODES

(***************************************************************************)
(* The health cache under every sequence of its calls, the clock advancing *)
(* between them.                                                           *)
(***************************************************************************)
CacheFrame ==
    UNCHANGED <<learning, has_storage, mode, aliased, stored_ls, persisted,
                entities_changed, last_save_time, pending_save, save_task,
                sleeping, flushing, subscribed, backstop_next, unload_pc,
                observed, last_call, burst_len, flushes_since_call,
                first_change, backstop_seen, health_out, feed_interval,
                val_in, val_out, aux2>>

CacheGetStep ==
    \E k \in CacheKeys :
        LET r == CacheGet(cache, k, now)
        IN  /\ cache' = r.cache
            /\ cache_hist' = CacheHistory("get", k, r.value, cache, r.cache,
                                 IF r.value # CacheMiss
                                 THEN Touch(cache_hist.recency, k)
                                 ELSE cache_hist.recency,
                                 cache_hist.set_at)
            /\ UNCHANGED now
            /\ CacheFrame

CacheSetStep ==
    \E k \in CacheKeys, h \in CacheHealths :
        /\ cache' = CacheSet(cache, k, h, now)
        /\ cache_hist' = CacheHistory("set", k, h, cache, cache',
                             Touch(cache_hist.recency, k),
                             [cache_hist.set_at EXCEPT ![k] = now])
        /\ UNCHANGED now
        /\ CacheFrame

CacheInvalidateStep ==
    \E k \in CacheKeys :
        /\ cache' = CacheInvalidate(cache, k)
        /\ cache_hist' = CacheHistory("invalidate", k, CacheMiss, cache, cache',
                             cache_hist.recency,
                             [cache_hist.set_at EXCEPT ![k] = NoTime])
        /\ UNCHANGED now
        /\ CacheFrame

CacheInvalidateAllStep ==
    /\ cache' = << >>
    /\ cache_hist' = CacheHistory("invalidate_all", "none", CacheMiss, cache,
                         cache', cache_hist.recency,
                         [x \in CacheKeys |-> NoTime])
    /\ UNCHANGED now
    /\ CacheFrame

CacheCleanupStep ==
    /\ cache' = CacheCleanup(cache, now)
    /\ cache_hist' = CacheHistory("cleanup_expired", "none", CacheMiss, cache,
                         cache', cache_hist.recency, cache_hist.set_at)
    /\ UNCHANGED now
    /\ CacheFrame

CacheTick ==
    /\ now < StartTime + CacheHorizon
    /\ now' = now + 1
    /\ UNCHANGED <<cache, cache_hist>>
    /\ CacheFrame

NextCache ==
    \/ CacheGetStep
    \/ CacheSetStep
    \/ CacheInvalidateStep
    \/ CacheInvalidateAllStep
    \/ CacheCleanupStep
    \/ CacheTick

SpecCache == Init /\ [][NextCache]_vars

\* C18: after any sequence of get, set, invalidate, invalidate_all and
\* cleanup_expired calls the cache holds at most max_size entries.
C18_BoundedCapacity == Len(cache) <= CacheMaxSize

\* a set has just added one more key to a cache that was full
C18_Witness ==
    /\ cache_hist.op = "set"
    /\ ~cache_hist.present
    /\ cache_hist.size = CacheMaxSize
    /\ Len(cache) = CacheMaxSize

\* C19: a set of a new key into a full cache evicts exactly one entry, the
\* one whose last use (a get that hit, or a set) is the oldest; a set of a
\* key already cached evicts nothing and puts that key last in the eviction
\* order.
C19_LruEviction ==
    cache_hist.op = "set" =>
        /\ ~cache_hist.present /\ cache_hist.size = CacheMaxSize
              => /\ Cardinality(cache_hist.removed) = 1
                 /\ cache_hist.removed = cache_hist.lru
        /\ cache_hist.present
              => /\ cache_hist.removed = {}
                 /\ Len(cache) = cache_hist.size
        /\ cache[Len(cache)].key = cache_hist.key

\* a set of a new key into a full cache evicted one entry, the key used
\* longest ago of all, and kept an entry set more than a second before
C19_Witness ==
    /\ cache_hist.op = "set"
    /\ ~cache_hist.present
    /\ cache_hist.size = CacheMaxSize
    /\ Cardinality(cache_hist.removed) = 1
    /\ Len(cache) = CacheMaxSize
    /\ cache[1].timestamp < cache_hist.time - 1
    /\ \E k \in CacheKeys \ CacheKeysOf(cache) :
          /\ k \in cache_hist.removed
          /\ cache_hist.recency[1] = k

\* C20: a get returns a value only for a key set no more than ttl seconds
\* before and neither invalidated nor evicted since; a get of an entry older
\* than ttl misses and removes it; a hit leaves the entry's timestamp as the
\* set wrote it.
C20_Ttl ==
    /\ \A i \in 1..Len(cache) :
          cache[i].timestamp = cache_hist.set_at[cache[i].key]
    /\ cache_hist.op = "get" =>
          /\ cache_hist.result # CacheMiss
                => /\ cache_hist.set_at[cache_hist.key] # NoTime
                   /\ cache_hist.time - cache_hist.set_at[cache_hist.key]
                         <= CacheTtl
                   /\ cache_hist.present
                   /\ cache[Len(cache)].timestamp = cache_hist.at
          /\ cache_hist.present /\ cache_hist.time - cache_hist.at > CacheTtl
                => /\ cache_hist.result = CacheMiss
                   /\ cache_hist.key \notin CacheKeysOf(cache)

\* a get that hit an entry exactly ttl seconds old
C20_Witness ==
    /\ cache_hist.op = "get"
    /\ cache_hist.result # CacheMiss
    /\ cache_hist.time - cache_hist.set_at[cache_hist.key] = CacheTtl

(***************************************************************************)
(* The rate limiter behind rate_limited_command: connections open, send    *)
(* commands and close, the clock advancing between the calls.              *)
(***************************************************************************)
RateFrame ==
    UNCHANGED <<learning, has_storage, mode, aliased, stored_ls, persisted,
                entities_changed, last_save_time, pending_save, save_task,
                sleeping, flushing, subscribed, backstop_next, unload_pc,
                observed, last_call, burst_len, flushes_since_call,
                first_change, backstop_seen, health_out, feed_interval,
                val_in, val_out, cache, cache_hist, registry, store_limit,
                obs>>

RateLive == {c \in RateConns : rate.conn_id[c] \in RateIds}

\* a connection object is created at an address no open connection has
RateOpen ==
    \E c \in RateConns, i \in RateIds :
        /\ rate.conn_id[c] = "unopened"
        /\ \A d \in RateLive : rate.conn_id[d] # i
        /\ rate' = [rate EXCEPT !.conn_id[c] = i]
        /\ UNCHANGED <<now, rate_hist>>
        /\ RateFrame

\* the connection closes and its object is freed; the limiter is not told
RateClose ==
    \E c \in RateLive :
        /\ rate' = [rate EXCEPT !.conn_id[c] = "closed"]
        /\ UNCHANGED <<now, rate_hist>>
        /\ RateFrame

\* rate_limited_command: check_rate_limit(id(connection), command).  The
\* history answers the same call from the calls of this connection alone.
RateCall ==
    \E c \in RateLive :
        LET i   == rate.conn_id[c]
            r   == CheckRateLimit(rate.calls[i], rate.blocked_until[i], now)
            own == CheckRateLimit(rate_hist.calls[c],
                                  rate_hist.blocked_until[c], now)
        IN  /\ rate' = [rate EXCEPT !.calls[i] = r.calls,
                                    !.blocked_until[i] = r.blocked_until]
            /\ rate_hist' =
                  [conn    |-> c,
                   at      |-> now,
                   allowed |-> r.allowed,
                   own     |-> own.allowed,
                   calls   |-> [rate_hist.calls EXCEPT ![c] = own.calls],
                   blocked_until |-> [rate_hist.blocked_until EXCEPT
                                         ![c] = own.blocked_until],
                   granted |-> [rate_hist.granted EXCEPT
                                   ![c] = IF r.allowed THEN Append(@, now)
                                          ELSE @]]
            /\ UNCHANGED now
            /\ RateFrame

RateTick ==
    /\ now < StartTime + RateHorizon
    /\ now' = now + 1
    /\ UNCHANGED <<rate, rate_hist>>
    /\ RateFrame

NextRate ==
    \/ RateOpen
    \/ RateClose
    \/ RateCall
    \/ RateTick

SpecRate == Init /\ [][NextRate]_vars

\* the calls of connection c that were allowed with a timestamp in
\* [t - window, t]
GrantedIn(c, t) ==
    Cardinality({k \in 1..Len(rate_hist.granted[c]) :
                    /\ rate_hist.granted[c][k] >= t - RateWindow
                    /\ rate_hist.granted[c][k] <= t})

\* for every connection and instant, at most the maximum of allowed calls
\* in the window that ends there
RateWindowBound ==
    \A c \in RateConns : \A t \in StartTime..now :
        GrantedIn(c, t) <= RateMaxCalls

\* C21: per connection, at most RATE_LIMIT_MAX_CALLS allowed calls in any
\* window, and the answer to a call of one connection is the answer its own
\* calls alone give: the calls of another connection never change it.
C21_RateLimitPerConnection ==
    /\ RateWindowBound
    /\ rate_hist.conn # "none" => rate_hist.allowed = rate_hist.own

(***************************************************************************)
(* The registry: the host registry changes one entity at a time, each      *)
(* change followed by the refresh it triggers; lookups by area in between. *)
(***************************************************************************)
RegFrame ==
    UNCHANGED <<now, learning, has_storage, mode, aliased, stored_ls,
                persisted, entities_changed, last_save_time, pending_save,
                save_task, sleeping, flushing, subscribed, backstop_next,
                unload_pc, observed, last_call, burst_len, flushes_since_call,
                first_change, backstop_seen, health_out, feed_interval,
                val_in, val_out, cache, cache_hist, rate, rate_hist,
                store_limit, obs>>

RegQueries == RegAreas \cup {NoArea, "garage"}

\* EVENT_ENTITY_REGISTRY_UPDATED, then async_refresh
RegUpdated ==
    \E i \in DOMAIN RegIds : \E entry \in RegEntryChoices(RegIds[i]) :
        LET host == [registry.host EXCEPT ![i] = entry]
        IN  /\ entry # registry.host[i]
            /\ registry' = [host     |-> host,
                            entities |-> Refresh(RegValues(host, 1)),
                            area_id  |-> "none",
                            result   |-> << >>]
            /\ RegFrame

RegGetByArea ==
    \E a \in RegQueries :
        /\ registry' = [registry EXCEPT
                           !.area_id = a,
                           !.result  = GetByArea(registry.entities, a)]
        /\ RegFrame

NextRegistry ==
    \/ RegUpdated
    \/ RegGetByArea

SpecRegistry == Init /\ [][NextRegistry]_vars

\* how many entries of the list are for this entity
RegCount(list, id) ==
    Cardinality({k \in 1..Len(list) : list[k].entity_id = id})

C23_FirstObservationBaseline ==
    \A e \in Entities :
        observed[e] = 1 =>
            /\ e \in DOMAIN learning
            /\ learning[e].event_count = 1
            /\ learning[e].last_event <= now
            /\ learning[e].interval_ewma = None
            /\ learning[e].threshold = None
            /\ learning[e].history = << >>
            /\ learning[e].last_health = HEALTH_UNKNOWN

\* C24: in every reachable state every record's threshold is null or
\* strictly positive.
C24_ThresholdPositive ==
    \A e \in DOMAIN learning :
        learning[e].threshold = None \/ ~DecLeqZero(learning[e].threshold)

(***************************************************************************)
(* The host clock set back.  time.time() is the wall clock; the timers run *)
(* on the loop's monotonic clock, so each stays as far from its expiry as  *)
(* it was.  Events and clock steps, up to the first expiry of a timer.     *)
(***************************************************************************)
ClockSetBack ==
    /\ now - TimeStep >= StartTime
    /\ now' = now - TimeStep
    /\ flushing = << >>
    /\ sleeping' = {[task EXCEPT !.due = @ - TimeStep] : task \in sleeping}
    /\ save_task' = IF save_task \in sleeping
                    THEN [save_task EXCEPT !.due = @ - TimeStep]
                    ELSE save_task
    /\ backstop_next' = backstop_next - TimeStep
    /\ UNCHANGED <<learning, has_storage, mode, aliased, stored_ls, persisted,
                   entities_changed, last_save_time, pending_save,
                   flushing, subscribed, unload_pc, observed, last_call,
                   burst_len, flushes_since_call, first_change, backstop_seen,
                   health_out, feed_interval, aux>>

ClockHorizon == 20

\* the time the loop's clock has run, read off the backstop timer
MonotonicElapsed == now + SAVE_MAX_WAIT_SECONDS - backstop_next

ClockTick == MonotonicElapsed < ClockHorizon /\ Tick

NextClock ==
    \/ EnvObserve
    \/ ClockTick
    \/ ClockSetBack

SpecClock == Init /\ [][NextClock]_vars

\* C25: an event earlier than the record's last_event is learned as an
\* interval of 0: every interval in a history is >= 0 and no interval_ewma is
\* negative.
C25_IntervalClamped ==
    \A e \in DOMAIN learning :
        /\ \A i \in 1..Len(learning[e].history) :
              learning[e].history[i].interval >= 0
        /\ learning[e].interval_ewma.m.hi >= 0

\* the step takes the record's last_health into late or stale
Degrades(e) ==
    /\ e \in DOMAIN learning'
    /\ learning'[e].last_health \in {HEALTH_LATE, HEALTH_STALE}
    /\ e \in DOMAIN learning => learning[e].last_health # learning'[e].last_health

\* C26: every step that takes an entity's last_health into late or stale,
\* an observe or the periodic evaluation, leaves a priority save armed, due
\* within the priority delay.
C26_DegradationPrioritySave ==
    [][(\E e \in Entities : Degrades(e)) =>
           /\ save_task' \in sleeping'
           /\ save_task'.prio
           /\ save_task'.due <= now' + PRIORITY_DELAY]_vars

(***************************************************************************)
(* The controller second by second: priority and ordinary calls that meet  *)
(* a timer at any distance from its expiry.                                *)
(***************************************************************************)
PrioHorizon == 12

PrioTick ==
    /\ ClockCanAdvance
    /\ now < StartTime + PrioHorizon
    /\ now' = now + 1
    /\ ClockFrame

NextPrio ==
    \/ EnvObserve
    \/ PrioritySave
    \/ TimerFire
    \/ FlushEnd
    \/ WriteCancelled
    \/ PrioTick

SpecPrio == Init /\ [][NextPrio]_vars

\* C27: a schedule_save(true) call that finds a timer pending with less than
\* 5 s left does not lengthen the wait: the timer it arms is due no later
\* than the one it replaced.
C27_PriorityNeverLengthens ==
    \A task \in sleeping :
        (task.prio /\ task.replaced # 0
             /\ task.replaced - task.armed < PRIORITY_DELAY)
            => task.due <= task.replaced

\* C28: ordinary calls do not delay a priority save: while a priority timer
\* is pending, a step either leaves a timer pending that is due no later or
\* is itself a priority timer, or is the start of the pending timer's flush.
C28_ChatterNoDelay ==
    [][(save_task \in sleeping /\ save_task.prio) =>
           \/ /\ save_task' \in sleeping'
              /\ save_task'.due <= save_task.due \/ save_task'.prio
           \/ /\ Len(flushing') = Len(flushing) + 1
              /\ flushing'[Len(flushing')].owner = "timer"
              /\ flushing'[Len(flushing')].task = save_task]_vars

\* the step starts the flush of a _delayed_save task
TimerFlushStarts ==
    /\ Len(flushing') = Len(flushing) + 1
    /\ flushing'[Len(flushing')].owner = "timer"

\* C29: at most one save timer is armed in every reachable state, the one
\* the last schedule_save call created; a flush a timer starts is started by
\* that timer, never by one a later call cancelled.
C29_SingleActiveTimer ==
    /\ [](/\ Cardinality(sleeping) <= 1
          /\ \A task \in sleeping : task = save_task /\ task.armed = last_call.at)
    /\ [][TimerFlushStarts =>
             LET task == flushing'[Len(flushing')].task
             IN  /\ task \in sleeping
                 /\ task = save_task
                 /\ task.armed = last_call.at
                 /\ sleeping' = {}]_vars

\* the timer that replaced a pending one started the only flush, after the
\* expiry of the timer it had cancelled
C29_Witness ==
    \E i \in 1..Len(flushing) :
        /\ flushing[i].owner = "timer"
        /\ flushing[i].task.replaced # 0
        /\ flushing[i].started > flushing[i].task.replaced
        /\ flushes_since_call = 1
        /\ sleeping = {}

(***************************************************************************)
(* The store against its limit, the limit scaled down to one entity:      *)
(* events for two entities, the debounce timer and its flushes.            *)
(***************************************************************************)
LearnCap == 1

CapInit == InitEngine /\ store_limit = LearnCap /\ InitTasks

NextCap ==
    \/ EnvObserve
    \/ TimerFire
    \/ FlushEnd
    \/ WriteCancelled
    \/ Tick

SpecCap == CapInit /\ [][NextCap]_vars

\* C30: in every reachable state, between flushes included, the in-memory
\* store holds at most the configured maximum number of entities.
C30_StoreBounded == Cardinality(DOMAIN learning) <= store_limit

\* ---------------------------------------------------------------------
\* A burst: one entity reports BurstEvents times within one reading of
\* the clock, then the debounce timer runs out and the store is flushed.

BurstEvents == 51

BurstObserve ==
    /\ observed[FeedEntity] < BurstEvents
    /\ Observe(FeedEntity)

\* the clock moves before the burst and after it
BurstTick ==
    /\ observed[FeedEntity] \in {0, BurstEvents}
    /\ Tick

NextBurst ==
    \/ BurstObserve
    \/ BurstTick
    \/ TimerFire
    \/ FlushEnd

SpecBurst == Init /\ [][NextBurst]_vars

\* C31: in every reachable state each record's history holds at most
\* MAX_HISTORY_PER_ENTITY entries.
C31_HistoryBounded ==
    \A e \in DOMAIN learning :
        Len(learning[e].history) <= MAX_HISTORY_PER_ENTITY

\* ---------------------------------------------------------------------
\* The cleanup_data service

COMPRESS_KEEP_LAST_N == 50
COMPRESS_OLDER_THAN_DAYS == 7

\* the events of h at or before the cutoff
SelectOld(h, cutoff) ==
    SelectSeq(h, LAMBDA event : ~(EventTimestamp(event) > cutoff))

\* the events of h that carry an interval
WithInterval(h) == SelectSeq(h, LAMBDA event : "interval" \in DOMAIN event)

RECURSIVE SeqSum(_)
SeqSum(s) == IF s = << >> THEN 0 ELSE Head(s) + SeqSum(Tail(s))

SeqSet(s) == {s[i] : i \in DOMAIN s}

SetMax(S) == CHOOSE x \in S : \A y \in S : y <= x

\* the summary of the old events; avg_interval is interval_sum over
\* interval_count
CompressedSummary(old_events) ==
    LET old_intervals == [i \in DOMAIN WithInterval(old_events) |->
                             WithInterval(old_events)[i].interval]
        stamps == {EventTimestamp(e) : e \in SeqSet(old_events)}
    IN  [compressed       |-> TRUE,
         event_count      |-> Len(old_events),
         interval_sum     |-> SeqSum(old_intervals),
         interval_count   |-> Len(old_intervals),
         min_interval     |-> SetMin(SeqSet(old_intervals)),
         max_interval     |-> SetMax(SeqSet(old_intervals)),
         oldest_timestamp |-> SetMin(stamps),
         newest_timestamp |-> SetMax(stamps)]

\* compress_history on one history
CompressHistory(h, t) ==
    LET cutoff        == t - COMPRESS_OLDER_THAN_DAYS * 86400
        recent_events == LastN(SelectRecent(h, cutoff), COMPRESS_KEEP_LAST_N)
        old_events    == SelectOld(h, cutoff)
    IN  IF old_events # << >> /\ WithInterval(old_events) # << >>
        THEN << CompressedSummary(old_events) >> \o recent_events
        ELSE recent_events

\* cleanup_orphaned_entities
CleanupOrphanedEntities(store, valid_set) ==
    [e \in (DOMAIN store) \cap valid_set |-> store[e]]

\* handle_cleanup_data up to the suspension in the store's write.  The
\* histories are replaced inside the record objects, which the evaluator's
\* store holds too.
CleanupData(remove_orphaned, compress_history, valid_entity_ids) ==
    LET kept == IF remove_orphaned
                THEN CleanupOrphanedEntities(DataLS, valid_entity_ids)
                ELSE DataLS
        Squeeze(rec) == IF compress_history
                        THEN [rec EXCEPT !.history = CompressHistory(@, now)]
                        ELSE rec
        out  == [e \in DOMAIN kept |-> Squeeze(kept[e])]
    IN  /\ unload_pc = "running"
        /\ has_storage
        /\ Len(flushing) < MaxInFlight
        /\ learning' = [e \in DOMAIN learning |->
                           IF e \in DOMAIN kept THEN out[e] ELSE learning[e]]
        /\ aliased' = IF remove_orphaned THEN FALSE ELSE aliased
        /\ stored_ls' = IF remove_orphaned THEN out ELSE stored_ls
        /\ flushing' = Append(flushing,
                              WriteJob(IF remove_orphaned
                                       THEN "cleanup_orphaned" ELSE "cleanup",
                                       NoTask, out))
        /\ UNCHANGED <<now, has_storage, mode, persisted, entities_changed,
                       last_save_time, pending_save, save_task, sleeping,
                       subscribed, backstop_next, unload_pc, observed,
                       last_call, burst_len, flushes_since_call, first_change,
                       backstop_seen, health_out, feed_interval, aux>>

\* the entity registry knows one of the two entities
ValidEntityIds == {"sensor.a"}

HandleCleanupData ==
    \E remove_orphaned \in BOOLEAN, compress_history \in BOOLEAN :
        CleanupData(remove_orphaned, compress_history, ValidEntityIds)

NextCleanup ==
    \/ EnvObserve
    \/ TimerFire
    \/ FlushEnd
    \/ WriteCancelled
    \/ HandleCleanupData
    \/ Tick

SpecCleanup == Init /\ [][NextCleanup]_vars

\* the write of cleanup_data(remove_orphaned = true) returns
CleanupOrphanedCompletes ==
    /\ flushing # << >>
    /\ Head(flushing).owner = "cleanup_orphaned"
    /\ flushing' = Tail(flushing)

\* C32: when cleanup_data(remove_orphaned = true) completes, the in-memory
\* store and the persisted learning state hold only entities of the
\* registry's valid-id set.
C32_OrphansGone ==
    [][CleanupOrphanedCompletes =>
          /\ DOMAIN learning' \subseteq ValidEntityIds
          /\ DOMAIN persisted' \subseteq ValidEntityIds]_vars

\* C33: a mode change leaves every record's threshold, interval_ewma and
\* last_health as they were; a stored threshold changes only in the
\* observe of its own entity, which sets it to the interval_ewma times the
\* multiplier of the mode current then.
C33_ModeChangeFrame ==
    [][/\ mode' # mode =>
            /\ DOMAIN learning' = DOMAIN learning
            /\ \A e \in DOMAIN learning :
                  /\ learning'[e].threshold = learning[e].threshold
                  /\ learning'[e].interval_ewma = learning[e].interval_ewma
                  /\ learning'[e].last_health = learning[e].last_health
       /\ \A e \in (DOMAIN learning) \cap (DOMAIN learning') :
              learning'[e].threshold # learning[e].threshold =>
                  /\ observed'[e] = observed[e] + 1
                  /\ learning'[e].threshold
                         = DecMulTenths(learning'[e].interval_ewma,
                                        ModeMultiplier)]_vars

\* the mode is vacation, and a record still carries the threshold of the
\* normal mode, which differs from the one the vacation mode gives
C33_Witness ==
    /\ mode = "vacation"
    /\ \E e \in DOMAIN learning :
          /\ learning[e].event_count >= 2
          /\ ~DecLeqZero(learning[e].interval_ewma)
          /\ learning[e].threshold = DecMulTenths(learning[e].interval_ewma, 50)
          /\ learning[e].threshold # DecMulTenths(learning[e].interval_ewma, 80)

\* ---------------------------------------------------------------------
\* Staleness detection: the periodic evaluation of __init__.py runs again
\* and again while time passes.  The store was loaded from a document that
\* lists sensor.a before sensor.b.

StaleHorizon == 60
StaleThresholds == {DecInt(10), DecInt(20)}
DictOrder == << "sensor.a", "sensor.b" >>

StaleInit ==
    /\ \E threshold \in StaleThresholds, with_bad \in BOOLEAN,
          count \in 2..ClsMaxCount :
          LET good == StorePut(EmptyStore, GoodEntity,
                               ClsRecord(count, threshold))
          IN  learning = IF with_bad
                         THEN StorePut(good, BadEntity,
                                       [ClsRecord(count, threshold)
                                            EXCEPT !.last_event = NoTime])
                         ELSE good
    /\ now = StartTime
    /\ InitValidator
    /\ InitCache
    /\ InitRate
    /\ InitRegistry
    /\ InitLimits
    /\ InitTasks
    /\ has_storage = TRUE
    /\ health_out = [kind |-> "none", value |-> EmptyStore]
    /\ feed_interval = 0
    /\ InitController

\* the entities the loop of async_run_evaluation reaches: those the dict
\* holds before the first record that makes _evaluate_health raise
Evaluated(store) ==
    {DictOrder[i] : i \in {j \in DOMAIN DictOrder :
        /\ DictOrder[j] \in DOMAIN store
        /\ \A k \in 1..j : ~EvaluateRaises(store, DictOrder[k])}}

\* _periodic_evaluation: async_run_evaluation, its exception logged.  The
\* field run tells one firing of the interval timer from the next.
PeriodicEvaluation ==
    LET run == IF "run" \in DOMAIN health_out THEN 1 - health_out.run ELSE 0
    IN  /\ learning' = [e \in DOMAIN learning |->
                           IF e \in Evaluated(learning)
                           THEN AsyncRunEvaluation(learning, now)[e]
                           ELSE learning[e]]
        /\ health_out' =
               IF \E e \in DOMAIN learning : EvaluateRaises(learning, e)
               THEN [kind |-> "run_evaluation raised", value |-> EmptyStore,
                     run |-> run]
               ELSE [kind  |-> "run_evaluation",
                     value |-> [e \in DOMAIN learning |->
                                   EvaluateHealth(learning, e, now)],
                     run   |-> run]
        /\ ClsFrame

StaleTick ==
    /\ now < StartTime + StaleHorizon
    /\ now' = now + TimeStep
    /\ ClockFrame

\* sensor.a may report once; sensor.b stays silent
StaleObserve ==
    /\ observed[BadEntity] = 0
    /\ Observe(BadEntity)

NextStale ==
    \/ PeriodicEvaluation
    \/ StaleTick
    \/ StaleObserve

\* the interval timer keeps firing and time keeps passing
SpecStale ==
    /\ StaleInit
    /\ [][NextStale]_vars
    /\ WF_vars(PeriodicEvaluation)
    /\ WF_vars(StaleTick)

HealthRank(h) ==
    CASE h = HEALTH_OK    -> 1
      [] h = HEALTH_LATE  -> 2
      [] h = HEALTH_STALE -> 3
      [] OTHER            -> 0

Learned(e) ==
    /\ e \in DOMAIN learning
    /\ learning[e].event_count >= 2
    /\ learning[e].threshold # None
    /\ ~DecLeqZero(learning[e].threshold)

\* C34: an entity with event_count >= 2 and a positive threshold that
\* receives no further event is eventually given last_health stale by the
\* periodic evaluation, and its class never improves from one evaluation
\* to the next.
C34_StalenessDetected ==
    /\ \A e \in Entities :
          (Learned(e) /\ observed[e] = 0)
              ~> (observed[e] > 0 \/ (Learned(e) /\ learning[e].last_health = HEALTH_STALE))
    /\ [][\A e \in Entities :
             (Learned(e) /\ e \in DOMAIN learning' /\ observed'[e] = observed[e]) =>
                 HealthRank(learning'[e].last_health)
                     >= HealthRank(learning[e].last_health)]_vars

\* a check of the limiter has just been made by connection rate_hist'.conn
RateChecked == rate_hist' # rate_hist

\* C35: a call rejected for exceeding the limit blocks its connection for
\* RateBlock seconds; a check during the block is refused, records nothing
\* and leaves the end of the block where it was; a check at or after the
\* end of the block is answered from the sliding window.
C35_BlockHolds ==
    [][RateChecked =>
          LET i       == rate.conn_id[rate_hist'.conn]
              blocked == /\ rate.blocked_until[i] # NoTime
                         /\ now < rate.blocked_until[i]
              kept    == PopOld(rate.calls[i], now - RateWindow)
          IN  /\ blocked =>
                    /\ ~rate_hist'.allowed
                    /\ rate'.calls[i] = rate.calls[i]
                    /\ rate'.blocked_until[i] = rate.blocked_until[i]
              /\ ~blocked =>
                    /\ rate_hist'.allowed <=> Len(kept) < RateMaxCalls
                    /\ rate_hist'.allowed =>
                           /\ rate'.calls[i] = Append(kept, now)
                           /\ rate'.blocked_until[i] = NoTime
                    /\ ~rate_hist'.allowed =>
                           /\ rate'.calls[i] = kept
                           /\ rate'.blocked_until[i] = now + RateBlock]_vars

\* a connection has just been refused in the middle of its block, which
\* still ends where the rejection put it
C35_Witness ==
    /\ rate_hist.conn \in RateLive
    /\ ~rate_hist.allowed
    /\ LET i == rate.conn_id[rate_hist.conn]
       IN  /\ rate.blocked_until[i] # NoTime
           /\ rate_hist.at = now
           /\ now < rate.blocked_until[i]
           /\ rate.blocked_until[i] < now + RateBlock

\* ---------------------------------------------------------------------
\* The observe handler as tasks of the event loop.  The listener creates
\* one task per state change; the loop starts them in creation order, and
\* a task runs until an await of it suspends.

\* variant: the storage lookup gives the loop back to the other tasks
AsyncGetSuspends_Yes == TRUE

\* LSGStorage.async_get awaits nothing: awaiting it never suspends
AsyncGetSuspends == FALSE

NewTask(entity_id) ==
    [entity |-> entity_id, pc |-> "ready", t |-> 0, interval |-> 0,
     learned |-> FALSE]

DropAt(s, i) == SubSeq(s, 1, i - 1) \o SubSeq(s, i + 1, Len(s))

\* _async_update_entity_learning down to the await of the multiplier
ObserveBegin(store, entity_id, t) ==
    LET rec == IF entity_id \in DOMAIN store
               THEN store[entity_id] ELSE NewRecord(t)
    IN  IF rec.last_event = NoTime THEN rec
        ELSE [rec EXCEPT
                 !.interval_ewma = EwmaUpdate(@, t - rec.last_event)]

\* _async_update_entity_learning from the threshold on, on the record as it
\* is then
ObserveFinish(store, task, multiplier, t_eval) ==
    LET rec  == IF task.entity \in DOMAIN store
                THEN store[task.entity] ELSE NewRecord(task.t)
        rec1 == IF task.learned
                THEN [rec EXCEPT
                         !.threshold = DecMulTenths(rec.interval_ewma,
                                                    multiplier),
                         !.history   = LastN(Append(@,
                                                [timestamp |-> task.t,
                                                 interval  |-> task.interval]),
                                             HISTORY_KEEP)]
                ELSE rec
        rec2 == [rec1 EXCEPT !.last_event = task.t, !.event_count = @ + 1]
        store2 == StorePut(store, task.entity, rec2)
    IN  StorePut(store, task.entity,
                 [rec2 EXCEPT !.last_health =
                                  EvaluateHealth(store2, task.entity, t_eval)])

TaskFrame ==
    UNCHANGED <<now, has_storage, mode, aliased, stored_ls, persisted,
                last_save_time, subscribed, backstop_next, unload_pc,
                backstop_seen, health_out, feed_interval, val_in, val_out,
                cache, cache_hist, rate, rate_hist, registry, store_limit>>

\* state_changed_listener: async_create_task
ObsArrive ==
    \E e \in Entities :
        /\ subscribed
        /\ Len(obs.queue) + SumOver(observed, Entities) < MaxEvents
        /\ obs' = [obs EXCEPT !.queue = Append(@, NewTask(e))]
        /\ UNCHANGED <<learning, entities_changed, first_change, observed,
                       sleeping, flushing, save_task, pending_save, last_call,
                       burst_len, flushes_since_call>>
        /\ TaskFrame

\* the rest of the handler: the record, the changed set, the save timer
ObsComplete(i, store, task) ==
    LET done == ObserveFinish(store, task, GetCurrentThresholdMultiplier, now)
    IN  /\ learning' = done
        /\ entities_changed' = entities_changed \cup {task.entity}
        /\ first_change' = IF entities_changed = {} THEN now ELSE first_change
        /\ observed' = [observed EXCEPT ![task.entity] = @ + 1]
        /\ ScheduleSaveStep(IsPrioritySave(OldHealth(store, task.entity),
                                           done[task.entity].last_health))

\* the loop runs a task: a new one from its start, or one whose lookup has
\* returned
ObsRun ==
    /\ \E i \in DOMAIN obs.queue :
           LET task == obs.queue[i]
               e    == task.entity
           IN  IF task.pc = "ready"
               THEN LET begun   == StorePut(learning, e,
                                            ObserveBegin(learning, e, now))
                        started == [task EXCEPT
                                       !.pc = "lookup",
                                       !.t = now,
                                       !.learned =
                                           (e \notin DOMAIN learning
                                            \/ learning[e].last_event # NoTime),
                                       !.interval =
                                           IF e \in DOMAIN learning
                                           THEN now - learning[e].last_event
                                           ELSE 0]
                        serial  == UpdateEntityLearning(
                                       obs.serial, e, now,
                                       GetCurrentThresholdMultiplier)
                    IN  /\ \A j \in 1..(i - 1) : obs.queue[j].pc # "ready"
                        /\ IF AsyncGetSuspends
                           THEN /\ learning' = begun
                                /\ obs' = [queue  |-> [obs.queue EXCEPT
                                                          ![i] = started],
                                           serial |-> serial]
                                /\ UNCHANGED <<entities_changed, first_change,
                                               observed, sleeping, flushing,
                                               save_task, pending_save,
                                               last_call, burst_len,
                                               flushes_since_call>>
                           ELSE /\ ObsComplete(i, begun, started)
                                /\ obs' = [queue  |-> DropAt(obs.queue, i),
                                           serial |-> serial]
               ELSE /\ ObsComplete(i, learning, task)
                    /\ obs' = [obs EXCEPT !.queue = DropAt(@, i)]
    /\ TaskFrame

NextOrder ==
    \/ ObsArrive
    \/ ObsRun
    \/ TimerFire
    \/ FlushEnd
    \/ Tick

SpecOrder == Init /\ [][NextOrder]_vars

\* C36: whenever no observe task of an entity is under way, its record
\* (last_event, interval_ewma, event_count, history) is the one the
\* observations give when applied whole, one after another, in the order
\* of arrival.
C36_PerEntityOrder ==
    \A e \in DOMAIN obs.serial :
        (\A i \in DOMAIN obs.queue :
             obs.queue[i].entity = e => obs.queue[i].pc = "ready") =>
            /\ e \in DOMAIN learning
            /\ learning[e].last_event = obs.serial[e].last_event
            /\ learning[e].interval_ewma = obs.serial[e].interval_ewma
            /\ learning[e].event_count = obs.serial[e].event_count
            /\ learning[e].history = obs.serial[e].history

\* two observations of one entity, made at different times, have been
\* applied while a third task for it waits
C36_Witness ==
    \E e \in DOMAIN learning :
        /\ learning[e].event_count = 2
        /\ Len(learning[e].history) = 2
        /\ learning[e].history[2].interval > 0
        /\ \E i \in DOMAIN obs.queue : obs.queue[i].entity = e

\* C37: whenever no write is in flight and the changed set is empty, the
\* persisted learning state equals the in-memory store.
C37_PersistedMatches ==
    (flushing = << >> /\ entities_changed = {}) => persisted = learning

ResetTargets == Entities \cup {"all"}

\* handle_reset_learning: the record, or every record, is deleted and the
\* store flushed at once; an unknown entity is only logged
ResetLearning(target) ==
    LET store == IF target = "all" THEN EmptyStore
                 ELSE [e \in (DOMAIN learning) \ {target} |-> learning[e]]
    IN  /\ unload_pc = "running"
        /\ Len(flushing) < MaxInFlight
        /\ target = "all" \/ target \in DOMAIN learning
        /\ IF has_storage
           THEN \E kept \in KeptEntities(store, store_limit) :
                   LET cleaned == ValidateLearningState(
                                      [e \in kept |-> store[e]], now)
                   IN  /\ learning' = cleaned
                       /\ aliased' = TRUE
                       /\ stored_ls' = EmptyStore
                       /\ flushing' = Append(flushing,
                                             WriteJob("reset", NoTask, cleaned))
           ELSE /\ learning' = store
                /\ UNCHANGED <<aliased, stored_ls, flushing>>
        /\ UNCHANGED <<now, has_storage, mode, persisted, entities_changed,
                       last_save_time, pending_save, save_task, sleeping,
                       subscribed, backstop_next, unload_pc, observed,
                       last_call, burst_len, flushes_since_call, first_change,
                       backstop_seen, health_out, feed_interval, aux>>

HandleResetLearning == \E target \in ResetTargets : ResetLearning(target)

NextFlush ==
    \/ EnvObserve
    \/ TimerFire
    \/ FlushEnd
    \/ WriteCancelled
    \/ BackstopTick
    \/ HandleResetLearning
    \/ Tick
    \/ Idle

SpecFlush == Init /\ [][NextFlush]_vars

\* the runs of _async_save_learning_state suspended in their write
FlushesInProgress ==
    {i \in DOMAIN flushing :
        flushing[i].owner \in {"timer", "backstop", "unload", "reset"}}

\* C39: at most one flush (timer, backstop, reset_learning, shutdown) is in
\* progress at any time.
C39_SingleFlush == Cardinality(FlushesInProgress) <= 1

\* ---------------------------------------------------------------------
\* compress_history and the validation after it.  The store was loaded
\* from a document whose one record holds events of the last days and of
\* more than a week ago.

\* the clock at setup, more than MAX_HISTORY_AGE_DAYS after the epoch
CompressEpoch == 40 * 86400

OldEvents ==
    << [timestamp |-> CompressEpoch - 9 * 86400, interval |-> 60],
       [timestamp |-> CompressEpoch - 8 * 86400, interval |-> 120] >>

RecentEvents ==
    << [timestamp |-> CompressEpoch - 100, interval |-> 30],
       [timestamp |-> CompressEpoch - 50, interval |-> 50] >>

CompressHistories ==
    {SubSeq(OldEvents, i, 2) \o SubSeq(RecentEvents, 1, j) :
         i \in 1..3, j \in 0..2}

\* async_setup: the evaluator's store and the storage's dict hold the same
\* record objects
CompressInit ==
    /\ \E h \in CompressHistories :
          learning = StorePut(EmptyStore, FeedEntity,
                              [ClsRecord(2, DecInt(100)) EXCEPT
                                  !.last_event = CompressEpoch - 50,
                                  !.history = h])
    /\ stored_ls = learning
    /\ persisted = learning
    /\ aliased = FALSE
    /\ InitSaverAt(CompressEpoch)
    /\ InitValidator
    /\ InitCache
    /\ InitRate
    /\ InitRegistry
    /\ InitLimits
    /\ InitTasks
    /\ now = CompressEpoch
    /\ has_storage = TRUE
    /\ health_out = [kind |-> "none", value |-> EmptyStore]
    /\ feed_interval = 0

\* another entity reports once, which arms the debounce timer
CompressObserve ==
    /\ observed[GoodEntity] = 0
    /\ Observe(GoodEntity)

CompressTick ==
    /\ ClockCanAdvance
    /\ now < CompressEpoch + FineHorizon
    /\ now' = SetMin(Deadlines \cup {now + TimeStep})
    /\ ClockFrame

NextCompress ==
    \/ HandleCleanupData
    \/ CompressObserve
    \/ TimerFire
    \/ FlushEnd
    \/ CompressTick

SpecCompress == CompressInit /\ [][NextCompress]_vars

HasSummary(h) == h # << >> /\ "compressed" \in DOMAIN Head(h)

\* C40: the validation of a flush leaves a history that compress_history
\* has given a summary record as it is: the summary first, the recent
\* entries after it.
C40_SummarySurvives ==
    [][(/\ Len(flushing') = Len(flushing) + 1
        /\ flushing'[Len(flushing')].owner = "timer") =>
           \A e \in DOMAIN learning :
               HasSummary(learning[e].history) =>
                   /\ e \in DOMAIN learning'
                   /\ learning'[e].history = learning[e].history]_vars

====
